---- MODULE Spec2Model ----
(***************************************************************************)
(* Model of the settlement aggregation and geocoding pipeline of           *)
(* src/mapScraper/settlements.py.                                          *)
(*                                                                         *)
(* A settlement name is a sequence of tokens: "," is the comma, " " is one *)
(* blank, every other token is a run of characters holding neither.        *)
(* str.split(',') and str.strip() are computed on that sequence.           *)
(* Coordinates are tenths of a degree on the meridian lon = -8.0, where    *)
(* the haversine distance is r * |dlat|.                                   *)
(***************************************************************************)
EXTENDS Integers, Sequences, FiniteSets, TLC

\* ------------------------------------------------------------------ bounds

\* longest settlement list handed to the pure functions
MaxLen == 3

\* ------------------------------------------------------------ input universe

NameA == <<"A", ",", " ", "Region1">>
NameB == <<"B", ",", " ", "Region1">>
NameC == <<"C", ",", " ", "Region2">>
NameD == <<"D">>
NameE == <<"E", ",", " ", "Region1", ",", " ", "X">>

\* the place tokens of the rows of the modelled Population.csv
Places == <<"M1", "M2", "M3", "M4", "M5", "M6", "M7", "M8", "M9", "M10", "M11", "M12">>

\* the name of row k: rows 1 to 3 lie in Region1, the others in Region2
RowName(k) == <<Places[k], ",", " ", IF k <= 3 THEN "Region1" ELSE "Region2">>

\* the population of row k: rows 1 and 2 are below the default floor of 1000
RowPopulation(k) == IF k = 1 THEN 500 ELSE IF k = 2 THEN 600 ELSE 1000 + 100 * k

\* the latitude of row k in tenths of a degree: rows 1, 2, 3 are 22 km apart in
\* a chain, the others more than 100 km from every other row
RowLat(k) == IF k <= 3 THEN 518 + 2 * k ELSE 520 + 10 * k

\* the names settlements are drawn from
DataNames == {NameA, NameB, NameC, NameD, NameE}

\* the populations settlements are drawn from
PopValues == {0, 500, 600, 1000}

\* the values of min_population and max_settlements the pregrouper is called with
MinPopulationValues == {1000}
MaxSettlementsValues == {1, 1000}

\* ------------------------------------------------------------ list helpers

RECURSIVE SumPopulation(_)
\* sum(s['population'] for s in seq)
SumPopulation(seq) ==
    IF seq = <<>> THEN 0 ELSE Head(seq).population + SumPopulation(Tail(seq))

RECURSIVE InsertByPop(_, _)
\* put s after every element whose population is >= its own
InsertByPop(s, seq) ==
    IF seq = <<>> THEN <<s>>
    ELSE IF Head(seq).population >= s.population
         THEN <<Head(seq)>> \o InsertByPop(s, Tail(seq))
         ELSE <<s>> \o seq

RECURSIVE SortedByPopMutant(_)
\* an unstable sort: ties come out in reverse input order
SortedByPopMutant(seq) ==
    IF seq = <<>> THEN <<>>
    ELSE InsertByPop(Head(seq), SortedByPopMutant(Tail(seq)))

RECURSIVE SortedByPopFrom(_, _)
SortedByPopFrom(acc, seq) ==
    IF seq = <<>> THEN acc
    ELSE SortedByPopFrom(InsertByPop(Head(seq), acc), Tail(seq))

\* sorted(seq, key=lambda x: x['population'], reverse=True): stable, so equal
\* populations keep their input order
SortedByPop(seq) == SortedByPopFrom(<<>>, seq)

\* max(group, key=lambda x: x['population']): the first element of maximal population
RECURSIVE MaxByPopFrom(_, _)
MaxByPopFrom(best, seq) ==
    IF seq = <<>> THEN best
    ELSE MaxByPopFrom(IF Head(seq).population > best.population THEN Head(seq) ELSE best,
                      Tail(seq))

MaxByPop(group) == MaxByPopFrom(Head(group), Tail(group))

\* list(dict.fromkeys(seq)) that keeps the duplicates
DedupKeepsDuplicates(seq) == seq

RECURSIVE DedupFrom(_, _)
DedupFrom(acc, seq) ==
    IF seq = <<>> THEN acc
    ELSE DedupFrom(IF \E i \in 1..Len(acc) : acc[i] = Head(seq)
                   THEN acc ELSE Append(acc, Head(seq)),
                   Tail(seq))

\* list(dict.fromkeys(seq)): first occurrences, in order
Dedup(seq) == DedupFrom(<<>>, seq)

\* ------------------------------------------------------------ names

RECURSIVE SplitCommaFrom(_, _, _)
SplitCommaFrom(parts, cur, toks) ==
    IF toks = <<>> THEN Append(parts, cur)
    ELSE IF Head(toks) = ","
         THEN SplitCommaFrom(Append(parts, cur), <<>>, Tail(toks))
         ELSE SplitCommaFrom(parts, Append(cur, Head(toks)), Tail(toks))

\* name.split(',')
SplitComma(name) == SplitCommaFrom(<<>>, <<>>, name)

RECURSIVE LStrip(_)
LStrip(part) ==
    IF part # <<>> /\ Head(part) = " " THEN LStrip(Tail(part)) ELSE part

RECURSIVE RStrip(_)
RStrip(part) ==
    IF part # <<>> /\ part[Len(part)] = " "
    THEN RStrip(SubSeq(part, 1, Len(part) - 1)) ELSE part

\* part.strip()
Strip(part) == RStrip(LStrip(part))

\* a region read only from names of three or more comma-separated parts
get_admin_region_off_by_one(name) ==
    LET parts == SplitComma(name)
    IN  IF Len(parts) > 2 THEN Strip(parts[2]) ELSE <<>>

\* get_admin_region: the second comma-separated part, stripped; '' without a comma
get_admin_region(name) ==
    LET parts == SplitComma(name)
    IN  IF Len(parts) > 1 THEN Strip(parts[2]) ELSE <<>>

\* ------------------------------------------------------------ pregrouper

\* round(num / den) for den > 0: to nearest, halves to the even neighbour
RoundHalfEven(num, den) ==
    LET q == num \div den
        r == num - q * den
    IN  IF 2 * r < den THEN q
        ELSE IF 2 * r > den THEN q + 1
        ELSE IF q % 2 = 0 THEN q ELSE q + 1

RECURSIVE FlattenNames(_)
\* for s in group: the name of s, then the constituent_settlements s carries
FlattenNames(group) ==
    IF group = <<>> THEN <<>>
    ELSE <<Head(group).name>> \o Head(group).constituent_settlements
         \o FlattenNames(Tail(group))

\* a merge that sums all members but the last
MergeGroupDropLast(group) ==
    IF Len(group) > 1
    THEN [name |-> MaxByPop(group).name,
          population |-> SumPopulation(SubSeq(group, 1, Len(group) - 1)),
          constituent_settlements |-> Dedup(FlattenNames(group))]
    ELSE group[1]

\* a merge that names the group after its last member
MergeGroupLastName(group) ==
    IF Len(group) > 1
    THEN [name |-> group[Len(group)].name,
          population |-> SumPopulation(group),
          constituent_settlements |-> Dedup(FlattenNames(group))]
    ELSE group[1]

\* the settlement emitted for one group: a merged record for two or more
\* members, the member itself for one
MergeGroup(group) ==
    IF Len(group) > 1
    THEN [name |-> MaxByPop(group).name,
          population |-> SumPopulation(group),
          constituent_settlements |-> Dedup(FlattenNames(group))]
    ELSE group[1]

\* an inner while that takes every member the region has left
GroupLenAll(region_settlements, k, total_pop, min_population) == Len(region_settlements)

\* an inner while that stops before it takes a second member
GroupLenSingle(region_settlements, k, total_pop, min_population) == k

RECURSIVE GroupLen(_, _, _, _)
\* the inner while: members are taken from the front of the region's list
\* until the running total reaches min_population or the list is used up
GroupLen(region_settlements, k, total_pop, min_population) ==
    IF k < Len(region_settlements) /\ total_pop < min_population
    THEN GroupLen(region_settlements, k + 1,
                  total_pop + region_settlements[k + 1].population, min_population)
    ELSE k

RECURSIVE RegionGroups(_, _)
\* the outer while of one region: the groups formed, in order
RegionGroups(region_settlements, min_population) ==
    IF region_settlements = <<>> THEN <<>>
    ELSE LET k == GroupLen(region_settlements, 1,
                           region_settlements[1].population, min_population)
         IN  <<SubSeq(region_settlements, 1, k)>>
             \o RegionGroups(SubSeq(region_settlements, k + 1, Len(region_settlements)),
                             min_population)

RECURSIVE MapMerge(_)
MapMerge(groups) ==
    IF groups = <<>> THEN <<>>
    ELSE <<MergeGroup(Head(groups))>> \o MapMerge(Tail(groups))

RECURSIVE RegionNames(_)
RegionNames(seq) ==
    IF seq = <<>> THEN <<>>
    ELSE <<get_admin_region(Head(seq).name)>> \o RegionNames(Tail(seq))

\* the keys of the admin_regions dict, in insertion order
RegionOrder(remaining) == Dedup(RegionNames(remaining))

\* admin_regions[region], sorted again by population (stable)
RegionSettlements(remaining, region) ==
    LET InRegion(s) == get_admin_region(s.name) = region
    IN  SortedByPop(SelectSeq(remaining, InRegion))

RECURSIVE GroupRegions(_, _, _)
\* the for loop over admin_regions.items(): what it appends to result
GroupRegions(regions, remaining, min_population) ==
    IF regions = <<>> THEN <<>>
    ELSE MapMerge(RegionGroups(RegionSettlements(remaining, Head(regions)),
                               min_population))
         \o GroupRegions(Tail(regions), remaining, min_population)

\* result before the validation step
PregroupResult(settlements, min_population) ==
    LET settlements_by_pop == SortedByPop(settlements)
        AtFloor(s) == s.population >= min_population
        BelowFloor(s) == s.population < min_population
        remaining == SelectSeq(settlements_by_pop, BelowFloor)
    IN  SelectSeq(settlements_by_pop, AtFloor)
        \o GroupRegions(RegionOrder(remaining), remaining, min_population)

\* population_difference = total_initial_population - total_final_population
PopulationDifference(settlements, min_population) ==
    SumPopulation(settlements) - SumPopulation(PregroupResult(settlements, min_population))

\* the proportional redistribution of population_difference over result; the
\* division by a zero total raises in the code and leaves result as it is here
Redistribute(result, population_difference) ==
    LET total_result_population == SumPopulation(result)
    IN  IF population_difference = 0 \/ total_result_population = 0 THEN result
        ELSE [i \in 1..Len(result) |->
                [result[i] EXCEPT !.population =
                    @ + RoundHalfEven(population_difference * @, total_result_population)]]

\* a pregrouper whose fast path hands back the sorted list
pregroup_sorted_fast_path(settlements, min_population, max_settlements) ==
    IF Len(settlements) <= max_settlements THEN SortedByPop(settlements)
    ELSE Redistribute(PregroupResult(settlements, min_population),
                      PopulationDifference(settlements, min_population))

\* pregroup_small_settlements(settlements, min_population, max_settlements)
pregroup_small_settlements(settlements, min_population, max_settlements) ==
    IF Len(settlements) <= max_settlements THEN settlements
    ELSE Redistribute(PregroupResult(settlements, min_population),
                      PopulationDifference(settlements, min_population))

\* ------------------------------------------------------------ clusterer and merger

\* r = 6371 km: the length in metres of a tenth of a degree of latitude,
\* 6371000 * pi / 1800, rounded down
MetresPerTenthDegree == 11119

\* max_distance=30, the default of group_settlements, in km
DefaultMaxDistance == 30

Abs(x) == IF x < 0 THEN -x ELSE x

\* calculate_distance(point1, point2) in metres, for two points of one meridian:
\* the haversine formula gives r * |dlat| there
calculate_distance(point1, point2) == Abs(point2[1] - point1[1]) * MetresPerTenthDegree

\* a test that reaches a third further than max_distance
WithinDistanceWide(s, settlement2, max_distance) ==
    calculate_distance(<<s.lat, s.lon>>, <<settlement2.lat, settlement2.lon>>) * 3
        <= max_distance * 1000 * 4

\* a test every pair passes
WithinDistanceAlways(s, settlement2, max_distance) == TRUE

\* dist <= max_distance
WithinDistance(s, settlement2, max_distance) ==
    calculate_distance(<<s.lat, s.lon>>, <<settlement2.lat, settlement2.lon>>)
        <= max_distance * 1000

RECURSIVE ScanGroupClosure(_, _, _, _, _)
\* a scan that starts again from the first settlement whenever a member joins,
\* until no settlement joins any more
ScanGroupClosure(sorted_settlements, group, used, j, max_distance) ==
    IF j > Len(sorted_settlements) THEN [group |-> group, used |-> used]
    ELSE IF /\ j \notin used
            /\ get_admin_region(sorted_settlements[group[1]].name)
                 = get_admin_region(sorted_settlements[j].name)
            /\ \E k \in 1..Len(group) :
                 WithinDistance(sorted_settlements[group[k]],
                                sorted_settlements[j], max_distance)
         THEN ScanGroupClosure(sorted_settlements, Append(group, j), used \cup {j},
                               1, max_distance)
         ELSE ScanGroupClosure(sorted_settlements, group, used, j + 1, max_distance)

RECURSIVE ScanGroup(_, _, _, _, _)
\* the inner for of group_settlements over j: a settlement not yet used, of the
\* seed's region and within max_distance of a member the group holds at that
\* moment, joins the group. group is a sequence of indices into sorted_settlements.
ScanGroup(sorted_settlements, group, used, j, max_distance) ==
    IF j > Len(sorted_settlements) THEN [group |-> group, used |-> used]
    ELSE IF /\ j \notin used
            /\ get_admin_region(sorted_settlements[group[1]].name)
                 = get_admin_region(sorted_settlements[j].name)
            /\ \E k \in 1..Len(group) :
                 WithinDistance(sorted_settlements[group[k]],
                                sorted_settlements[j], max_distance)
         THEN ScanGroup(sorted_settlements, Append(group, j), used \cup {j},
                        j + 1, max_distance)
         ELSE ScanGroup(sorted_settlements, group, used, j + 1, max_distance)

RECURSIVE GroupsFrom(_, _, _, _)
\* the outer for of group_settlements over i: every unused settlement seeds a group
GroupsFrom(sorted_settlements, i, used, max_distance) ==
    IF i > Len(sorted_settlements) THEN <<>>
    ELSE IF i \in used THEN GroupsFrom(sorted_settlements, i + 1, used, max_distance)
    ELSE LET g == ScanGroup(sorted_settlements, <<i>>, used \cup {i}, 1, max_distance)
         IN  <<[k \in 1..Len(g.group) |-> sorted_settlements[g.group[k]]]>>
             \o GroupsFrom(sorted_settlements, i + 1, g.used, max_distance)

\* a clusterer that scans the settlements in input order
group_settlements_unsorted(settlements, max_distance) ==
    GroupsFrom(settlements, 1, {}, max_distance)

\* group_settlements(settlements, max_distance): the list of groups
group_settlements(settlements, max_distance) ==
    GroupsFrom(SortedByPop(settlements), 1, {}, max_distance)

RECURSIVE SumLatPop(_)
\* sum(s['lat'] * s['population'] for s in group)
SumLatPop(group) ==
    IF group = <<>> THEN 0
    ELSE Head(group).lat * Head(group).population + SumLatPop(Tail(group))

RECURSIVE SumLonPop(_)
\* sum(s['lon'] * s['population'] for s in group)
SumLonPop(group) ==
    IF group = <<>> THEN 0
    ELSE Head(group).lon * Head(group).population + SumLonPop(Tail(group))

\* process_settlement_group raises ZeroDivisionError when total_pop is 0
ProcessRaises(group) == SumPopulation(group) = 0

\* a merger that keeps only the population of the main settlement
process_settlement_group_main_only(group) ==
    [name |-> MaxByPop(group).name,
     lat |-> [num |-> SumLatPop(group), den |-> SumPopulation(group)],
     lon |-> [num |-> SumLonPop(group), den |-> SumPopulation(group)],
     population |-> MaxByPop(group).population,
     constituent_settlements |-> Dedup(FlattenNames(group))]

\* a merger that lists the members' names and drops what they carry
process_settlement_group_names_only(group) ==
    [name |-> MaxByPop(group).name,
     lat |-> [num |-> SumLatPop(group), den |-> SumPopulation(group)],
     lon |-> [num |-> SumLonPop(group), den |-> SumPopulation(group)],
     population |-> SumPopulation(group),
     constituent_settlements |-> Dedup([k \in 1..Len(group) |-> group[k].name])]

\* process_settlement_group(group), for a group it does not raise on; a weighted
\* coordinate is the fraction num / den
process_settlement_group(group) ==
    [name |-> MaxByPop(group).name,
     lat |-> [num |-> SumLatPop(group), den |-> SumPopulation(group)],
     lon |-> [num |-> SumLonPop(group), den |-> SumPopulation(group)],
     population |-> SumPopulation(group),
     constituent_settlements |-> Dedup(FlattenNames(group))]

\* ------------------------------------------------------------ stage 4 of main

\* where the geocoding service puts each name, when it finds it: points of the
\* meridian lon = -8.0, in tenths of a degree
Location ==
    (NameA :> [lat |-> 520, lon |-> -80]) @@
    (NameB :> [lat |-> 522, lon |-> -80]) @@
    (NameC :> [lat |-> 521, lon |-> -80]) @@
    (NameD :> [lat |-> 540, lon |-> -80]) @@
    (NameE :> [lat |-> 524, lon |-> -80]) @@
    [n \in {RowName(k) : k \in 1..Len(Places)} |->
        [lat |-> RowLat(CHOOSE k \in 1..Len(Places) : RowName(k) = n), lon |-> -80]]

\* settlement.get('constituent_settlements', [settlement['name']]); a settlement
\* without the key carries the empty sequence in the model
ConstituentsOrName(settlement) ==
    IF settlement.constituent_settlements = <<>> THEN <<settlement.name>>
    ELSE settlement.constituent_settlements

\* the settlements list built by the stage 4 loop of main: the grouped
\* settlements whose name is a key of locations, with its coordinates
Stage4Settlements(grouped, locs) ==
    LET Found(s) == s.name \in DOMAIN locs
        found == SelectSeq(grouped, Found)
    IN  [i \in 1..Len(found) |->
            [name |-> found[i].name,
             population |-> found[i].population,
             lat |-> locs[found[i].name].lat,
             lon |-> locs[found[i].name].lon,
             constituent_settlements |-> ConstituentsOrName(found[i])]]

\* the not_found list built by the stage 4 loop of main
Stage4NotFound(grouped, locs) ==
    LET Missing(s) == s.name \notin DOMAIN locs
        missing == SelectSeq(grouped, Missing)
    IN  [i \in 1..Len(missing) |-> missing[i].name]

\* [process_settlement_group(group) for group in grouped_settlements]
ProcessGroups(groups) ==
    [i \in 1..Len(groups) |-> process_settlement_group(groups[i])]

\* ------------------------------------------------------------ state

VARIABLES
    pc,                       \* where the modelled call sequence or run stands
    min_population,           \* the pregrouper's min_population
    max_settlements,          \* the pregrouper's max_settlements
    cso_settlements,          \* the stage 1 list: name and population
    grouped_cso_settlements,  \* the pregrouper's result
    settlements,              \* the geocoded settlements of stage 4
    grouped_settlements,      \* the groups of group_settlements
    final_settlements,        \* the merged settlements
    checkpoints,              \* the files of CHECKPOINT_DIR, one per stage
    fpc,                      \* where fetch_locations_batch stands
    names,                    \* its argument names
    batch_size,               \* its argument batch_size
    results,                  \* its dict results: name -> location
    names_to_process,         \* its list names_to_process
    batch_i,                  \* the i of its loop over batches (0-based offset)
    pos,                      \* the 1-based position in names_to_process of the next name
    requests,                 \* requests sent per name in this invocation
    start_results,            \* what load_checkpoint('locations') gave this invocation
    unresolved,               \* requests of this invocation that returned no place
    population_csv,           \* the rows of Population.csv, as fetch_cso_settlements reads them
    settlements_json,         \* the file ../mapData/sourceData/settlements.json
    missing_json,             \* the file missing_settlements_analysis.json
    unmatched_json,           \* the file unmatched_settlements.json
    append,                   \* args.append of the run
    runs,                     \* runs of main started so far
    existing_data,            \* main's existing_data
    total_ireland_population, \* main's total_ireland_population
    locations,                \* main's locations
    not_found,                \* main's not_found
    final_data,               \* main's final_data
    loaded,                   \* the stages whose load_checkpoint gave this run data
    last_run,                 \* how the run before this one ended, and its args.append
    api_key,                  \* whether GOOGLE_MAPS_API_KEY is set for the run
    csv_exists                \* whether the file Population.csv exists

dataVars == <<min_population, max_settlements, cso_settlements,
              grouped_cso_settlements, settlements, grouped_settlements,
              final_settlements>>

fetchVars == <<fpc, names, batch_size, results, names_to_process, batch_i, pos,
               requests, start_results, unresolved>>

fileVars == <<population_csv, settlements_json, missing_json, unmatched_json>>

diskVars == <<checkpoints, fileVars>>

runVars == <<append, runs, existing_data, total_ireland_population, locations,
             not_found, final_data, loaded, last_run, api_key, csv_exists>>

vars == <<pc, dataVars, fetchVars, diskVars, runVars>>

\* ------------------------------------------------------------ checkpoint files

\* a file that does not exist
Absent == [state |-> "absent", data |-> <<>>]

\* a file open(..., 'wb') has emptied and pickle.dump has not finished writing
Truncated == [state |-> "truncated", data |-> <<>>]

\* a save that writes a snapshot of nothing
CompleteEmpty(data) == [state |-> "complete", data |-> <<>>]

\* a file holding one complete pickle of data
Complete(data) == [state |-> "complete", data |-> data]

Stages == {"cso_settlements", "grouped_settlements", "locations",
           "processed_settlements", "final_settlements"}

NoCheckpoints == [stage \in Stages |-> Absent]

\* there was no run before this one
NoRun == [status |-> "none", append |-> FALSE]

\* the values of main's variables and of the files while no run has started
MainIdle ==
    /\ population_csv = <<>>
    /\ settlements_json = Absent
    /\ missing_json = Absent
    /\ unmatched_json = Absent
    /\ append = FALSE
    /\ runs = 0
    /\ existing_data = <<>>
    /\ total_ireland_population = 0
    /\ locations = <<>>
    /\ not_found = <<>>
    /\ final_data = <<>>
    /\ loaded = {}
    /\ last_run = NoRun
    /\ api_key = TRUE
    /\ csv_exists = TRUE

\* the idle values of the variables of fetch_locations_batch
FetchIdle ==
    /\ fpc = "idle"
    /\ names = <<>>
    /\ batch_size = 0
    /\ results = <<>>
    /\ names_to_process = <<>>
    /\ batch_i = 0
    /\ pos = 0
    /\ requests = <<>>
    /\ start_results = <<>>
    /\ unresolved = 0

\* ------------------------------------------------------------ the pure functions, called in turn

\* a stage 1 record
Settlement(name, population) ==
    [name |-> name, population |-> population, constituent_settlements |-> <<>>]

RECURSIVE InputLists(_)
\* the lists of at most n settlements with pairwise distinct names
InputLists(n) ==
    IF n = 0 THEN {<<>>}
    ELSE LET shorter == InputLists(n - 1)
         IN  shorter \cup
             {Append(l, Settlement(nm, p)) :
                 l \in {x \in shorter : Len(x) = n - 1},
                 nm \in DataNames, p \in PopValues}

NamesOf(seq) == {seq[i].name : i \in 1..Len(seq)}

DistinctNames(seq) == Cardinality(NamesOf(seq)) = Len(seq)

DataInit ==
    /\ pc = "input"
    /\ min_population \in MinPopulationValues
    /\ max_settlements \in MaxSettlementsValues
    /\ cso_settlements \in {l \in InputLists(MaxLen) : DistinctNames(l)}
    /\ grouped_cso_settlements = <<>>
    /\ settlements = <<>>
    /\ grouped_settlements = <<>>
    /\ final_settlements = <<>>
    /\ checkpoints = NoCheckpoints
    /\ FetchIdle
    /\ MainIdle

\* pregroup_small_settlements is called on the input list
CallPregroup ==
    /\ pc = "input"
    /\ grouped_cso_settlements' =
         pregroup_small_settlements(cso_settlements, min_population, max_settlements)
    /\ pc' = "pregrouped"
    /\ UNCHANGED <<min_population, max_settlements, cso_settlements, settlements,
                   grouped_settlements, final_settlements, fetchVars, diskVars, runVars>>

\* every grouped settlement gets the coordinates of its name
CallGeocode ==
    /\ pc = "pregrouped"
    /\ settlements' = Stage4Settlements(grouped_cso_settlements, Location)
    /\ pc' = "geocoded"
    /\ UNCHANGED <<min_population, max_settlements, cso_settlements,
                   grouped_cso_settlements, grouped_settlements, final_settlements,
                   fetchVars, diskVars, runVars>>

\* group_settlements is called on the geocoded settlements
CallGroup ==
    /\ pc = "geocoded"
    /\ grouped_settlements' = group_settlements(settlements, DefaultMaxDistance)
    /\ pc' = "clustered"
    /\ UNCHANGED <<min_population, max_settlements, cso_settlements,
                   grouped_cso_settlements, settlements, final_settlements,
                   fetchVars, diskVars, runVars>>

\* process_settlement_group is called on every group; the first group of total
\* population 0 raises ZeroDivisionError and no list is produced
CallProcess ==
    /\ pc = "clustered"
    /\ IF \E i \in 1..Len(grouped_settlements) : ProcessRaises(grouped_settlements[i])
       THEN /\ pc' = "raised"
            /\ UNCHANGED final_settlements
       ELSE /\ pc' = "merged"
            /\ final_settlements' = ProcessGroups(grouped_settlements)
    /\ UNCHANGED <<min_population, max_settlements, cso_settlements,
                   grouped_cso_settlements, settlements, grouped_settlements,
                   fetchVars, diskVars, runVars>>

DataNext == CallPregroup \/ CallGeocode \/ CallGroup \/ CallProcess

SpecData == DataInit /\ [][DataNext]_vars

\* ------------------------------------------------------------ the pregrouper alone

\* values of min_population: the default, and 601, for which two settlements
\* of population 600 make a group of population 2 * min_population - 2
FloorValues == {601, 1000}

FloorInit ==
    /\ pc = "input"
    /\ min_population \in FloorValues
    /\ max_settlements \in MaxSettlementsValues
    /\ cso_settlements \in {l \in InputLists(MaxLen) : DistinctNames(l)}
    /\ grouped_cso_settlements = <<>>
    /\ settlements = <<>>
    /\ grouped_settlements = <<>>
    /\ final_settlements = <<>>
    /\ checkpoints = NoCheckpoints
    /\ FetchIdle
    /\ MainIdle

FloorNext == CallPregroup

SpecFloor == FloorInit /\ [][FloorNext]_vars

\* ------------------------------------------------------------ fetch_locations_batch

\* longest list of names fetch_locations_batch is called on directly
MaxFetchNames == 3

\* largest batch_size it is called with directly
MaxBatchSize == 2

\* most requests of one invocation that return no place
MaxUnresolved == 2

\* the names the geocoding service may return no place for: the names of the
\* direct calls and two rows of the table of places
MayBeUnknown == DataNames \cup {RowName(Len(Places) - 1), RowName(Len(Places) - 2)}

\* the names a checkpoint left by an earlier invocation may hold
PriorNames == {NameA, NameB}

\* [name for name in names if name not in results], without the filter
NamesToProcessUnfiltered(name_list, from_checkpoint) == name_list

\* [name for name in names if name not in results]
NamesToProcess(name_list, from_checkpoint) ==
    LET NotIn(name) == name \notin DOMAIN from_checkpoint
    IN  SelectSeq(name_list, NotIn)

\* the position of the last name of the current batch, names_to_process[i:i + batch_size]
BatchEnd ==
    IF batch_i + batch_size < Len(names_to_process)
    THEN batch_i + batch_size ELSE Len(names_to_process)

\* lines 391-403: the checkpoint is from_checkpoint and the names it holds are left out.
\* pickle.load raises on a truncated file, before the try block.
FetchEnter ==
    /\ fpc = "call"
    /\ requests' = [n \in {names[k] : k \in 1..Len(names)} |-> 0]
    /\ unresolved' = 0
    /\ batch_i' = 0
    /\ pos' = 1
    /\ IF checkpoints.locations.state = "truncated"
       THEN /\ fpc' = "raised"
            /\ UNCHANGED <<results, names_to_process, start_results>>
       ELSE LET from_checkpoint == IF checkpoints.locations.state = "absent" THEN <<>>
                          ELSE checkpoints.locations.data
                todo == NamesToProcess(names, from_checkpoint)
            IN  /\ results' = from_checkpoint
                /\ start_results' = from_checkpoint
                /\ names_to_process' = todo
                /\ fpc' = IF todo = <<>> THEN "returned" ELSE "batch"
    /\ UNCHANGED <<pc, dataVars, diskVars, runVars, names, batch_size>>

\* lines 414-418: one request for the next name of the batch; the service
\* returns a place or none (a RequestException is caught and counts as none)
FetchRequest ==
    /\ fpc = "batch"
    /\ pos <= BatchEnd
    /\ \E found \in BOOLEAN :
         LET name == names_to_process[pos]
         IN  /\ ~found => unresolved < MaxUnresolved /\ name \in MayBeUnknown
             /\ requests' = [requests EXCEPT ![name] = @ + 1]
             /\ results' = IF found THEN (name :> Location[name]) @@ results
                           ELSE results
             /\ unresolved' = IF found THEN unresolved ELSE unresolved + 1
    /\ pos' = pos + 1
    /\ UNCHANGED <<pc, dataVars, diskVars, runVars, fpc, names, batch_size, names_to_process,
                   batch_i, start_results>>

\* a request whose answer makes fetch_google_maps_location raise something
\* other than a RequestException: lines 444-447 print and re-raise
FetchRequestRaises ==
    /\ fpc = "batch"
    /\ pos <= BatchEnd
    /\ requests' = [requests EXCEPT ![names_to_process[pos]] = @ + 1]
    /\ fpc' = "raised"
    /\ UNCHANGED <<pc, dataVars, diskVars, runVars, names, batch_size, results,
                   names_to_process, batch_i, pos, start_results, unresolved>>

\* line 421, save_checkpoint line 33: open(checkpoint_file, 'wb') empties the file
FetchSaveOpen ==
    /\ fpc = "batch"
    /\ pos > BatchEnd
    /\ checkpoints' = [checkpoints EXCEPT !.locations = Truncated]
    /\ fpc' = "saving"
    /\ UNCHANGED <<pc, dataVars, fileVars, runVars, names, batch_size, results, names_to_process,
                   batch_i, pos, requests, start_results, unresolved>>

\* save_checkpoint line 34: pickle.dump has written results; the loop goes on
\* to the next batch or the function returns results
FetchSaveDump ==
    /\ fpc = "saving"
    /\ checkpoints' = [checkpoints EXCEPT !.locations = Complete(results)]
    /\ batch_i' = batch_i + batch_size
    /\ fpc' = IF batch_i + batch_size >= Len(names_to_process)
              THEN "returned" ELSE "batch"
    /\ UNCHANGED <<pc, dataVars, fileVars, runVars, names, batch_size, results, names_to_process,
                   pos, requests, start_results, unresolved>>

\* the process is interrupted or killed (KeyboardInterrupt, a signal, power)
\* while fetch_locations_batch runs
FetchInterrupt ==
    /\ fpc \in {"batch", "saving"}
    /\ fpc' = "killed"
    /\ UNCHANGED <<pc, dataVars, diskVars, runVars, names, batch_size, results,
                   names_to_process, batch_i, pos, requests, start_results,
                   unresolved>>

RECURSIVE NameLists(_)
\* the lists of at most n pairwise distinct names
NameLists(n) ==
    IF n = 0 THEN {<<>>}
    ELSE LET shorter == NameLists(n - 1)
         IN  shorter \cup
             {Append(l, nm) : l \in {x \in shorter : Len(x) = n - 1}, nm \in DataNames}

UniqueNames(name_list) ==
    Cardinality({name_list[k] : k \in 1..Len(name_list)}) = Len(name_list)

\* the locations checkpoints an earlier invocation may have left
PriorLocations ==
    {Absent} \cup {Complete([n \in S |-> Location[n]]) : S \in SUBSET PriorNames}

\* fetch_locations_batch(names, batch_size) is called directly
FetchInit ==
    /\ pc = "fetch"
    /\ min_population = 0
    /\ max_settlements = 0
    /\ cso_settlements = <<>>
    /\ grouped_cso_settlements = <<>>
    /\ settlements = <<>>
    /\ grouped_settlements = <<>>
    /\ final_settlements = <<>>
    /\ \E prior \in PriorLocations :
         checkpoints = [NoCheckpoints EXCEPT !.locations = prior]
    /\ fpc = "call"
    /\ names \in {l \in NameLists(MaxFetchNames) : UniqueNames(l)}
    /\ batch_size \in 1..MaxBatchSize
    /\ results = <<>>
    /\ names_to_process = <<>>
    /\ batch_i = 0
    /\ pos = 0
    /\ requests = <<>>
    /\ start_results = <<>>
    /\ unresolved = 0
    /\ MainIdle

FetchNext ==
    \/ FetchEnter
    \/ FetchRequest
    \/ FetchRequestRaises
    \/ FetchSaveOpen
    \/ FetchSaveDump
    \/ FetchInterrupt

SpecFetch == FetchInit /\ [][FetchNext]_vars

\* ------------------------------------------------------------ fetch_cso_settlements

\* most data rows of the Population.csv that fetch_cso_settlements is run on
\* directly
MaxCsvLines == 2

\* the decimal digits; a VALUE field is a sequence of one-character tokens
Digits == <<"0", "1", "2", "3", "4", "5", "6", "7", "8", "9">>

DigitSet == {Digits[i] : i \in 1..Len(Digits)}

DigitValue(d) == (CHOOSE i \in 1..Len(Digits) : Digits[i] = d) - 1

\* the text is a number float() reads: digits with at most one point
IsFloat(value) ==
    /\ \A i \in 1..Len(value) : value[i] \in DigitSet \cup {"."}
    /\ Cardinality({i \in 1..Len(value) : value[i] = "."}) <= 1
    /\ \E i \in 1..Len(value) : value[i] \in DigitSet

RECURSIVE DigitsNumber(_, _)
\* the number the digits of value spell, the point left out
DigitsNumber(value, acc) ==
    IF value = <<>> THEN acc
    ELSE IF Head(value) = "." THEN DigitsNumber(Tail(value), acc)
    ELSE DigitsNumber(Tail(value), 10 * acc + DigitValue(Head(value)))

RECURSIVE PowerOfTen(_)
PowerOfTen(n) == IF n = 0 THEN 1 ELSE 10 * PowerOfTen(n - 1)

\* round(float(value)) for a text float() reads
RoundFloat(value) ==
    LET points == {i \in 1..Len(value) : value[i] = "."}
        decimals == IF points = {} THEN 0
                    ELSE Len(value) - (CHOOSE i \in points : TRUE)
    IN  RoundHalfEven(DigitsNumber(value, 0), PowerOfTen(decimals))

\* a loop over the rows that skips every row whose VALUE float() does not read
RECURSIVE IngestSkippingFrom(_, _)
IngestSkippingFrom(rows, acc) ==
    IF rows = <<>>
    THEN IF acc = <<>> THEN [outcome |-> "RuntimeError", settlements |-> <<>>]
         ELSE [outcome |-> "returned", settlements |-> acc]
    ELSE LET row == Head(rows)
             value == Strip(row.VALUE)
         IN  IF row.STATISTIC # "F1011C01" \/ value = <<>> \/ ~IsFloat(value)
             THEN IngestSkippingFrom(Tail(rows), acc)
             ELSE IngestSkippingFrom(Tail(rows),
                     Append(acc, Settlement(Strip(row.name), RoundFloat(value))))

RECURSIVE IngestFrom(_, _)
\* lines 153-173, 175-176, 184-188: the loop over the rows. A row of another
\* statistic or with an empty VALUE is skipped; float() raises ValueError on a
\* VALUE it does not read, and the handler raises SystemExit(1); no settlement
\* at the end raises RuntimeError.
IngestFrom(rows, acc) ==
    IF rows = <<>>
    THEN IF acc = <<>> THEN [outcome |-> "RuntimeError", settlements |-> <<>>]
         ELSE [outcome |-> "returned", settlements |-> acc]
    ELSE LET row == Head(rows)
             value == Strip(row.VALUE)
         IN  IF row.STATISTIC # "F1011C01" \/ value = <<>>
             THEN IngestFrom(Tail(rows), acc)
             ELSE IF ~IsFloat(value)
             THEN [outcome |-> "SystemExit", settlements |-> <<>>]
             ELSE IngestFrom(Tail(rows),
                     Append(acc, Settlement(Strip(row.name), RoundFloat(value))))

\* fetch_cso_settlements() on a Population.csv with these data rows
fetch_cso_settlements(rows) == IngestFrom(rows, <<>>)

\* the VALUE fields of the rows: empty, blank, numbers, numbers between blanks,
\* and texts float() does not read
CsvValues == {<<>>, <<" ">>, <<"7">>, <<"2", ".", "5">>, <<" ", "1", ".", "5", " ">>,
              <<"x">>, <<"1", " ", "5">>, <<".">>}

\* the Electoral Divisions fields of the rows
CsvNames == {NameA, <<" ", "D", " ">>}

\* the data rows of a Population.csv
CsvRowValues == [STATISTIC : {"F1011C01", "F1011C02"}, name : CsvNames, VALUE : CsvValues]

RECURSIVE CsvRowLists(_)
\* the lists of at most n data rows
CsvRowLists(n) ==
    IF n = 0 THEN {<<>>}
    ELSE LET shorter == CsvRowLists(n - 1)
         IN  shorter \cup
             {Append(l, row) : l \in {x \in shorter : Len(x) = n - 1},
                               row \in CsvRowValues}

\* fetch_cso_settlements is run on a Population.csv; here population_csv holds
\* the data rows as the file gives them, the fields as text
IngestInit ==
    /\ pc = "ingest"
    /\ min_population = 0
    /\ max_settlements = 0
    /\ cso_settlements = <<>>
    /\ grouped_cso_settlements = <<>>
    /\ settlements = <<>>
    /\ grouped_settlements = <<>>
    /\ final_settlements = <<>>
    /\ checkpoints = NoCheckpoints
    /\ FetchIdle
    /\ population_csv \in CsvRowLists(MaxCsvLines)
    /\ settlements_json = Absent
    /\ missing_json = Absent
    /\ unmatched_json = Absent
    /\ append = FALSE
    /\ runs = 0
    /\ existing_data = <<>>
    /\ total_ireland_population = 0
    /\ locations = <<>>
    /\ not_found = <<>>
    /\ final_data = <<>>
    /\ loaded = {}
    /\ last_run = NoRun
    /\ api_key = TRUE
    /\ csv_exists = TRUE

\* fetch_cso_settlements returns the settlements
IngestReturns ==
    /\ pc = "ingest"
    /\ fetch_cso_settlements(population_csv).outcome = "returned"
    /\ cso_settlements' = fetch_cso_settlements(population_csv).settlements
    /\ pc' = "ingested"
    /\ UNCHANGED <<min_population, max_settlements, grouped_cso_settlements,
                   settlements, grouped_settlements, final_settlements, fetchVars,
                   diskVars, runVars>>

\* fetch_cso_settlements raises SystemExit(1), or RuntimeError, which the
\* handler of main turns into SystemExit(1)
IngestExits ==
    /\ pc = "ingest"
    /\ fetch_cso_settlements(population_csv).outcome # "returned"
    /\ pc' = "ingest_exit1"
    /\ UNCHANGED <<dataVars, fetchVars, diskVars, runVars>>

IngestNext == IngestReturns \/ IngestExits

SpecIngest == IngestInit /\ [][IngestNext]_vars

\* ------------------------------------------------------------ grid transform

\* IRELAND_BBOX in tenths of a degree
MinLatTenths == 514

MaxLatTenths == 554

MinLonTenths == -106

MaxLonTenths == -59

\* the grid size calculate_grid_transformation scales to
GridSize == 50000

\* a transformation onto a grid of side 100000
calculate_grid_transformation_hundred_thousand ==
    [origin |-> <<MinLonTenths, MinLatTenths>>,
     scale |-> <<[num |-> 100000, den |-> MaxLonTenths - MinLonTenths],
                 [num |-> 100000, den |-> MaxLatTenths - MinLatTenths]>>]

\* calculate_grid_transformation(): the origin, and the scale per tenth of a
\* degree as the fraction num / den
calculate_grid_transformation ==
    [origin |-> <<MinLonTenths, MinLatTenths>>,
     scale |-> <<[num |-> GridSize, den |-> MaxLonTenths - MinLonTenths],
                 [num |-> GridSize, den |-> MaxLatTenths - MinLatTenths]>>]

\* the greatest common divisor of two naturals
RECURSIVE GCD(_, _)
GCD(a, b) == IF b = 0 THEN a ELSE GCD(b, a % b)

\* the fraction num / den in lowest terms
Reduce(q) ==
    LET g == GCD(Abs(q.num), Abs(q.den))
    IN  IF g = 0 THEN q ELSE [num |-> q.num \div g, den |-> q.den \div g]

\* (value - origin) * scale for fractions value and scale and an integer origin
Scaled(value, origin, scale) ==
    LET v == Reduce(value)
        offset == Reduce([num |-> v.num - origin * v.den, den |-> v.den])
        s == Reduce(scale)
        g1 == GCD(Abs(offset.num), s.den)
        g2 == GCD(s.num, offset.den)
    IN  [num |-> (offset.num \div g1) * (s.num \div g2),
         den |-> (offset.den \div g2) * (s.den \div g1)]

\* transform_coordinates([(lon, lat)], transform)[0] for coordinates that are
\* fractions num / den: ((lon - origin[0]) * scale[0], (lat - origin[1]) * scale[1])
transform_coordinates(lon, lat, transform) ==
    <<Scaled(lon, transform.origin[1], transform.scale[1]),
      Scaled(lat, transform.origin[2], transform.scale[2])>>

\* lines 685-690: every final settlement gets grid_x and grid_y
WithGrid(merged) ==
    [i \in 1..Len(merged) |->
        LET grid_coords == transform_coordinates(merged[i].lon, merged[i].lat,
                                                 calculate_grid_transformation)
        IN  [name |-> merged[i].name,
             lat |-> merged[i].lat,
             lon |-> merged[i].lon,
             population |-> merged[i].population,
             constituent_settlements |-> merged[i].constituent_settlements,
             grid_x |-> grid_coords[1],
             grid_y |-> grid_coords[2]]]

\* ------------------------------------------------------------ the transform alone

\* the points of the bounding box, corners and edges included, in tenths of a
\* degree
BoxPoints == (MinLatTenths..MaxLatTenths) \X (MinLonTenths..MaxLonTenths)

\* a geocoded settlement at a point
SettlementAt(point) ==
    [name |-> NameD, population |-> 1000, lat |-> point[1], lon |-> point[2],
     constituent_settlements |-> <<NameD>>]

\* stage 5 is about to give grid coordinates to one final settlement, the
\* merger of a cluster of one settlement that lies at a point of the box
GridInit ==
    /\ pc = "grid_input"
    /\ min_population = 1000
    /\ max_settlements = 1000
    /\ cso_settlements = <<>>
    /\ grouped_cso_settlements = <<>>
    /\ \E point \in BoxPoints :
          /\ settlements = <<SettlementAt(point)>>
          /\ grouped_settlements = <<<<SettlementAt(point)>>>>
    /\ final_settlements = <<>>
    /\ checkpoints = NoCheckpoints
    /\ FetchIdle
    /\ MainIdle

\* lines 683-690: the groups are merged and every final settlement gets grid_x
\* and grid_y
GridTransform ==
    /\ pc = "grid_input"
    /\ final_settlements' = WithGrid(ProcessGroups(grouped_settlements))
    /\ pc' = "gridded"
    /\ UNCHANGED <<min_population, max_settlements, cso_settlements,
                   grouped_cso_settlements, settlements, grouped_settlements,
                   fetchVars, diskVars, runVars>>

GridNext == GridTransform

SpecGrid == GridInit /\ [][GridNext]_vars

\* ------------------------------------------------------------ main

\* most runs of main in one behaviour
MaxRuns == 2

\* rows of the large Population.csv
CsvRows == 11

\* batch_size=50, the default of fetch_locations_batch
DefaultBatchSize == 50

\* the large Population.csv
BigCsv == [k \in 1..CsvRows |-> Settlement(RowName(k), RowPopulation(k))]

\* a Population.csv with a row of population 0 far from every other row
SmallCsv == <<Settlement(NameD, 0), Settlement(NameC, 1000)>>

CsvFiles == {BigCsv, SmallCsv}

\* failure_rate > 0.2 for failure_rate = failed / total
FailureRateAboveFifth(failed, total) == 5 * failed > total

\* failure_rate > 0.1 for failure_rate = failed / total
FailureRateHigh(failed, total) == 10 * failed > total

\* not_found_details of the stage 4 loop
Stage4NotFoundDetails(grouped, locs) ==
    LET Missing(s) == s.name \notin DOMAIN locs
        missing == SelectSeq(grouped, Missing)
    IN  [i \in 1..Len(missing) |->
            [name |-> missing[i].name,
             population |-> missing[i].population,
             constituent_settlements |-> ConstituentsOrName(missing[i])]]

\* lines 728-742: final_data of a run without --append
NormalFinalData(finals, total_ireland, unmatched, name_count) ==
    [settlements |-> finals,
     metadata |-> [total_population |-> SumPopulation(finals),
                   total_settlements |-> Len(finals),
                   total_ireland_population |-> total_ireland,
                   unmatched_settlements |-> unmatched,
                   failure_rate |-> [num |-> Len(unmatched), den |-> name_count]]]

\* lines 697-708: the populations of the existing settlements after the
\* undistribution of distributed_population
Undistributed(existing, finals) ==
    LET original_total == SumPopulation(existing.settlements)
        new_total == SumPopulation(finals)
        distributed_population ==
            original_total + new_total - existing.metadata.total_ireland_population
    IN  IF distributed_population > 0
        THEN [i \in 1..Len(existing.settlements) |->
                [existing.settlements[i] EXCEPT !.population =
                    @ - RoundHalfEven(distributed_population * @, original_total)]]
        ELSE existing.settlements

\* line 707 divides by original_total
UndistributeRaises(existing, finals) ==
    /\ SumPopulation(existing.settlements) = 0
    /\ SumPopulation(finals) > existing.metadata.total_ireland_population

\* lines 692-726: final_data of a run with --append
AppendFinalData(existing, finals, unmatched, name_count) ==
    LET old == Undistributed(existing, finals)
    IN  [settlements |-> old \o finals,
         metadata |-> [total_population |-> SumPopulation(old) + SumPopulation(finals),
                       total_settlements |-> Len(old) + Len(finals),
                       total_ireland_population |->
                           existing.metadata.total_ireland_population,
                       unmatched_settlements |->
                           existing.metadata.unmatched_settlements \o unmatched,
                       failure_rate |-> [num |-> Len(unmatched), den |-> name_count]]]

\* the pc values at which a process of main is running
Running == pc \notin {"idle", "exit0", "exit1", "killed", "input", "pregrouped",
                      "geocoded", "clustered", "merged", "raised", "fetch",
                      "ingest", "ingested", "ingest_exit1", "grid_input",
                      "gridded"}

\* the memory of a process that has not run yet
MemoryReset ==
    /\ cso_settlements' = <<>>
    /\ grouped_cso_settlements' = <<>>
    /\ settlements' = <<>>
    /\ grouped_settlements' = <<>>
    /\ final_settlements' = <<>>
    /\ fpc' = "idle"
    /\ names' = <<>>
    /\ batch_size' = 0
    /\ results' = <<>>
    /\ names_to_process' = <<>>
    /\ batch_i' = 0
    /\ pos' = 0
    /\ requests' = <<>>
    /\ start_results' = <<>>
    /\ unresolved' = 0
    /\ existing_data' = <<>>
    /\ total_ireland_population' = 0
    /\ locations' = <<>>
    /\ not_found' = <<>>
    /\ final_data' = <<>>
    /\ loaded' = {}

\* load_csv_settlements, load_json_settlements and lines 62-68 of
\* analyze_missing_settlements.py: the rows of the CSV file whose name is in no
\* constituent_settlements list of the dataset
MissingRows(csv, data) ==
    LET listed == data.settlements
        json_settlements ==
            UNION {{listed[i].constituent_settlements[j] :
                       j \in 1..Len(listed[i].constituent_settlements)} :
                   i \in 1..Len(listed)}
        Missing(row) == row.name \notin json_settlements
    IN  SelectSeq(csv, Missing)

\* what an earlier run without --append on the large Population.csv knew after
\* stage 3, the geocoding service having returned no place for one name
EarlierLocations(grouped) ==
    [n \in NamesOf(grouped) \ {RowName(Len(Places) - 2)} |-> Location[n]]

\* the settlements.json that run wrote
PriorData(floor, most) ==
    LET grouped == pregroup_small_settlements(BigCsv, floor, most)
        locs == EarlierLocations(grouped)
        found == Stage4Settlements(grouped, locs)
        finals == WithGrid(ProcessGroups(group_settlements(found, DefaultMaxDistance)))
    IN  NormalFinalData(finals, SumPopulation(BigCsv), Stage4NotFound(grouped, locs),
                        Len(grouped))

\* the unmatched_settlements.json that run wrote
PriorUnmatched(floor, most) ==
    LET grouped == pregroup_small_settlements(BigCsv, floor, most)
    IN  Stage4NotFoundDetails(grouped, EarlierLocations(grouped))

\* before the first modelled run: no checkpoint, and either no output file or
\* the files an earlier run on the large Population.csv and the analysis of
\* the missing settlements left. main calls the pregrouper with its
\* defaults; max_settlements = 1 stands for a Population.csv
\* with more rows than the default of 1000, which the modelled files are too
\* short to have.
MainInit ==
    /\ pc = "idle"
    /\ min_population \in MinPopulationValues
    /\ max_settlements \in MaxSettlementsValues
    /\ cso_settlements = <<>>
    /\ grouped_cso_settlements = <<>>
    /\ settlements = <<>>
    /\ grouped_settlements = <<>>
    /\ final_settlements = <<>>
    /\ checkpoints = NoCheckpoints
    /\ FetchIdle
    /\ population_csv \in CsvFiles
    /\ \/ /\ settlements_json = Absent
          /\ missing_json = Absent
          /\ unmatched_json = Absent
       \/ /\ population_csv = BigCsv
          /\ settlements_json = Complete(PriorData(min_population, max_settlements))
          /\ missing_json =
                Complete(MissingRows(BigCsv,
                                     PriorData(min_population, max_settlements)))
          /\ unmatched_json = Complete(PriorUnmatched(min_population, max_settlements))
    /\ append = FALSE
    /\ runs = 0
    /\ existing_data = <<>>
    /\ total_ireland_population = 0
    /\ locations = <<>>
    /\ not_found = <<>>
    /\ final_data = <<>>
    /\ loaded = {}
    /\ last_run = NoRun
    /\ api_key = TRUE
    /\ csv_exists = TRUE

\* python settlements.py [--append] is started once no run is in progress
StartRun ==
    /\ pc \in {"idle", "exit0", "exit1", "killed"}
    /\ runs < MaxRuns
    /\ runs' = runs + 1
    /\ last_run' = [status |-> pc, append |-> append]
    /\ append' \in BOOLEAN
    /\ api_key' \in BOOLEAN
    /\ csv_exists' \in BOOLEAN
    /\ pc' = "start"
    /\ MemoryReset
    /\ UNCHANGED <<min_population, max_settlements, checkpoints, population_csv,
                   settlements_json, missing_json, unmatched_json>>

\* lines 583-586 and 603-607: the run exits with status 1 when the API key is
\* not set; otherwise stage 1 of a run without --append. The checkpoint is used
\* when there is one; pickle.load raises on a truncated file; otherwise
\* Population.csv is read (fetch_cso_settlements exits with status 1 when the
\* file does not exist) and save_checkpoint opens the checkpoint file.
Stage1 ==
    /\ pc = "start"
    /\ ~append
    /\ CASE ~api_key \/ checkpoints.cso_settlements.state = "truncated" ->
              /\ pc' = "exit1"
              /\ UNCHANGED <<cso_settlements, checkpoints, loaded>>
         [] api_key /\ checkpoints.cso_settlements.state = "complete" ->
              /\ cso_settlements' = checkpoints.cso_settlements.data
              /\ loaded' = loaded \cup {"cso_settlements"}
              /\ pc' = "stage2"
              /\ UNCHANGED checkpoints
         [] api_key /\ checkpoints.cso_settlements.state = "absent" /\ ~csv_exists ->
              /\ pc' = "exit1"
              /\ UNCHANGED <<cso_settlements, checkpoints, loaded>>
         [] api_key /\ checkpoints.cso_settlements.state = "absent" /\ csv_exists ->
              /\ cso_settlements' = population_csv
              /\ checkpoints' = [checkpoints EXCEPT !.cso_settlements = Truncated]
              /\ pc' = "saving_cso"
              /\ UNCHANGED loaded
    /\ UNCHANGED <<min_population, max_settlements, grouped_cso_settlements,
                   settlements, grouped_settlements, final_settlements, fpc, names,
                   batch_size, results, names_to_process, batch_i, pos, requests,
                   start_results, unresolved, population_csv, settlements_json,
                   missing_json, unmatched_json, append, runs, last_run, api_key, csv_exists, existing_data,
                   total_ireland_population, locations, not_found, final_data>>

\* a run with --append that clears the checkpoints before it looks for its files
AppendLoadClearsFirst ==
    /\ pc = "start"
    /\ append
    /\ checkpoints' = NoCheckpoints
    /\ IF api_key /\ settlements_json.state = "complete" /\ missing_json.state = "complete"
       THEN /\ existing_data' = settlements_json.data
            /\ cso_settlements' = missing_json.data
            /\ pc' = "stage2"
       ELSE /\ pc' = "exit1"
            /\ UNCHANGED <<existing_data, cso_settlements>>
    /\ UNCHANGED <<min_population, max_settlements, grouped_cso_settlements,
                   settlements, grouped_settlements, final_settlements,
                   fetchVars, fileVars, append, runs, last_run, api_key, csv_exists,
                   total_ireland_population, locations, not_found, final_data, loaded>>

\* lines 583-598: the run exits with status 1 when the API key is not set;
\* otherwise a run with --append loads settlements.json and the missing
\* settlements; a missing file exits with status 1 and json.load raises on a
\* truncated one
AppendLoad ==
    /\ pc = "start"
    /\ append
    /\ IF api_key /\ settlements_json.state = "complete" /\ missing_json.state = "complete"
       THEN /\ existing_data' = settlements_json.data
            /\ cso_settlements' = missing_json.data
            /\ pc' = "clearing"
       ELSE /\ pc' = "exit1"
            /\ UNCHANGED <<existing_data, cso_settlements>>
    /\ UNCHANGED <<min_population, max_settlements, grouped_cso_settlements,
                   settlements, grouped_settlements, final_settlements, checkpoints,
                   fpc, names, batch_size, results, names_to_process, batch_i, pos,
                   requests, start_results, unresolved, population_csv,
                   settlements_json, missing_json, unmatched_json, append, runs, last_run, api_key, csv_exists,
                   total_ireland_population, locations, not_found, final_data, loaded>>

\* a run with --append that goes on to stage 2 without clearing the checkpoints
ClearForAppendSkipped ==
    /\ pc = "clearing"
    /\ pc' = "stage2"
    /\ UNCHANGED <<dataVars, fetchVars, diskVars, runVars>>

\* line 601: clear_checkpoints() unlinks every checkpoint file
ClearForAppend ==
    /\ pc = "clearing"
    /\ checkpoints' = NoCheckpoints
    /\ pc' = "stage2"
    /\ UNCHANGED <<min_population, max_settlements, cso_settlements,
                   grouped_cso_settlements, settlements, grouped_settlements,
                   final_settlements, fpc, names, batch_size, results,
                   names_to_process, batch_i, pos, requests, start_results, unresolved,
                   population_csv, settlements_json, missing_json, unmatched_json,
                   append, runs, last_run, api_key, csv_exists, existing_data, total_ireland_population, locations,
                   not_found, final_data, loaded>>

\* lines 609-621: total_ireland_population and stage 2. The checkpoint is used
\* when there is one; otherwise the pregrouper runs and save_checkpoint opens
\* the checkpoint file.
Stage2 ==
    /\ pc = "stage2"
    /\ total_ireland_population' = SumPopulation(cso_settlements)
    /\ CASE checkpoints.grouped_settlements.state = "truncated" ->
              /\ pc' = "exit1"
              /\ UNCHANGED <<grouped_cso_settlements, checkpoints, loaded>>
         [] checkpoints.grouped_settlements.state = "complete" ->
              /\ grouped_cso_settlements' = checkpoints.grouped_settlements.data
              /\ loaded' = loaded \cup {"grouped_settlements"}
              /\ pc' = "stage3"
              /\ UNCHANGED checkpoints
         [] checkpoints.grouped_settlements.state = "absent" ->
              /\ grouped_cso_settlements' =
                   pregroup_small_settlements(cso_settlements, min_population,
                                              max_settlements)
              /\ checkpoints' = [checkpoints EXCEPT !.grouped_settlements = Truncated]
              /\ pc' = "saving_grouped"
              /\ UNCHANGED loaded
    /\ UNCHANGED <<min_population, max_settlements, cso_settlements, settlements,
                   grouped_settlements, final_settlements, fpc, names, batch_size,
                   results, names_to_process, batch_i, pos, requests, start_results,
                   unresolved, population_csv, settlements_json, missing_json,
                   unmatched_json, append, runs, last_run, api_key, csv_exists, existing_data, locations, not_found,
                   final_data>>

\* lines 623-626: fetch_locations_batch(settlement_names) is called
Stage3Call ==
    /\ pc = "stage3"
    /\ names' = [i \in 1..Len(grouped_cso_settlements) |-> grouped_cso_settlements[i].name]
    /\ batch_size' = DefaultBatchSize
    /\ fpc' = "call"
    /\ pc' = "fetching"
    /\ UNCHANGED <<min_population, max_settlements, cso_settlements,
                   grouped_cso_settlements, settlements, grouped_settlements,
                   final_settlements, checkpoints, results, names_to_process, batch_i,
                   pos, requests, start_results, unresolved, population_csv,
                   settlements_json, missing_json, unmatched_json, append, runs, last_run, api_key, csv_exists,
                   existing_data, total_ireland_population, locations, not_found,
                   final_data, loaded>>

\* lines 626-652: fetch_locations_batch has returned; the stage 4 loop builds
\* settlements and not_found and save_checkpoint opens the checkpoint file
Stage4 ==
    /\ pc = "fetching"
    /\ fpc = "returned"
    /\ locations' = results
    /\ settlements' = Stage4Settlements(grouped_cso_settlements, results)
    /\ not_found' = Stage4NotFound(grouped_cso_settlements, results)
    /\ checkpoints' = [checkpoints EXCEPT !.processed_settlements = Truncated]
    /\ fpc' = "idle"
    /\ pc' = "saving_processed"
    /\ UNCHANGED <<min_population, max_settlements, cso_settlements,
                   grouped_cso_settlements, grouped_settlements, final_settlements,
                   names, batch_size, results, names_to_process, batch_i, pos,
                   requests, start_results, unresolved, population_csv,
                   settlements_json, missing_json, unmatched_json, append, runs, last_run, api_key, csv_exists,
                   existing_data, total_ireland_population, final_data, loaded>>

\* a handler that clears the checkpoints before it exits with status 1
Stage3RaisedClears ==
    /\ pc = "fetching"
    /\ fpc = "raised"
    /\ fpc' = "idle"
    /\ pc' = "exit1"
    /\ checkpoints' = NoCheckpoints
    /\ UNCHANGED <<dataVars, fileVars, runVars, names, batch_size, results,
                   names_to_process, batch_i, pos, requests, start_results, unresolved>>

\* lines 760-763: an exception out of fetch_locations_batch reaches the handler
\* of main, which exits with status 1
Stage3Raised ==
    /\ pc = "fetching"
    /\ fpc = "raised"
    /\ fpc' = "idle"
    /\ pc' = "exit1"
    /\ UNCHANGED <<min_population, max_settlements, cso_settlements,
                   grouped_cso_settlements, settlements, grouped_settlements,
                   final_settlements, checkpoints, names, batch_size, results,
                   names_to_process, batch_i, pos, requests, start_results, unresolved,
                   population_csv, settlements_json, missing_json, unmatched_json,
                   append, runs, last_run, api_key, csv_exists, existing_data, total_ireland_population, locations,
                   not_found, final_data, loaded>>

\* save_checkpoint line 34 for the checkpoints main saves: pickle.dump has
\* written the data
SaveDump ==
    /\ pc \in {"saving_cso", "saving_grouped", "saving_processed", "saving_final"}
    /\ CASE pc = "saving_cso" ->
              /\ checkpoints' = [checkpoints EXCEPT
                                   !.cso_settlements = Complete(cso_settlements)]
              /\ pc' = "stage2"
         [] pc = "saving_grouped" ->
              /\ checkpoints' = [checkpoints EXCEPT
                                   !.grouped_settlements = Complete(grouped_cso_settlements)]
              /\ pc' = "stage3"
         [] pc = "saving_processed" ->
              /\ checkpoints' = [checkpoints EXCEPT
                                   !.processed_settlements =
                                       Complete(<<settlements, not_found>>)]
              /\ pc' = "gate"
         [] pc = "saving_final" ->
              /\ checkpoints' = [checkpoints EXCEPT
                                   !.final_settlements = Complete(final_data)]
              /\ pc' = "write_open"
    /\ UNCHANGED <<min_population, max_settlements, cso_settlements,
                   grouped_cso_settlements, settlements, grouped_settlements,
                   final_settlements, fpc, names, batch_size, results,
                   names_to_process, batch_i, pos, requests, start_results, unresolved,
                   population_csv, settlements_json, missing_json, unmatched_json,
                   append, runs, last_run, api_key, csv_exists, existing_data, total_ireland_population, locations,
                   not_found, final_data, loaded>>

\* a gate that lets every failure rate pass
GateWithoutRate ==
    /\ pc = "gate"
    /\ unmatched_json' =
         IF not_found # <<>>
         THEN Complete(Stage4NotFoundDetails(grouped_cso_settlements, locations))
         ELSE unmatched_json
    /\ pc' = IF settlements = <<>> THEN "exit1" ELSE "stage5"
    /\ UNCHANGED <<dataVars, fetchVars, checkpoints, population_csv, settlements_json,
                   missing_json, runVars>>

\* lines 654-673: the unmatched settlements are written to their file, and the
\* run exits with status 1 on a failure rate above 0.1 or with no settlement
Gate ==
    /\ pc = "gate"
    /\ unmatched_json' =
         IF not_found # <<>>
         THEN Complete(Stage4NotFoundDetails(grouped_cso_settlements, locations))
         ELSE unmatched_json
    /\ pc' = IF \/ not_found # <<>> /\ FailureRateHigh(Len(not_found), Len(names))
                \/ settlements = <<>>
             THEN "exit1" ELSE "stage5"
    /\ UNCHANGED <<min_population, max_settlements, cso_settlements,
                   grouped_cso_settlements, settlements, grouped_settlements,
                   final_settlements, checkpoints, fpc, names, batch_size, results,
                   names_to_process, batch_i, pos, requests, start_results, unresolved,
                   population_csv, settlements_json, missing_json, append, runs, last_run, api_key, csv_exists,
                   existing_data, total_ireland_population, locations, not_found,
                   final_data, loaded>>

\* lines 675-743: stage 5. The checkpoint is used when there is one; otherwise
\* the settlements are grouped, merged (process_settlement_group raises on a
\* group of population 0, and the handler exits with status 1), given grid
\* coordinates and put into final_data, and save_checkpoint opens the file.
Stage5 ==
    /\ pc = "stage5"
    /\ CASE checkpoints.final_settlements.state = "truncated" ->
              /\ pc' = "exit1"
              /\ UNCHANGED <<grouped_settlements, final_settlements, final_data,
                             checkpoints, loaded>>
         [] checkpoints.final_settlements.state = "complete" ->
              /\ final_data' = checkpoints.final_settlements.data
              /\ loaded' = loaded \cup {"final_settlements"}
              /\ pc' = "write_open"
              /\ UNCHANGED <<grouped_settlements, final_settlements, checkpoints>>
         [] checkpoints.final_settlements.state = "absent" ->
              LET groups == group_settlements(settlements, DefaultMaxDistance)
                  finals == WithGrid(ProcessGroups(groups))
              IN  /\ grouped_settlements' = groups
                  /\ UNCHANGED loaded
                  /\ IF \/ \E i \in 1..Len(groups) : ProcessRaises(groups[i])
                        \/ append /\ UndistributeRaises(existing_data, finals)
                     THEN /\ pc' = "exit1"
                          /\ UNCHANGED <<final_settlements, final_data, checkpoints>>
                     ELSE /\ final_settlements' = finals
                          /\ final_data' =
                               IF append
                               THEN AppendFinalData(existing_data, finals, not_found,
                                                    Len(names))
                               ELSE NormalFinalData(finals, total_ireland_population,
                                                    not_found, Len(names))
                          /\ checkpoints' = [checkpoints EXCEPT
                                               !.final_settlements = Truncated]
                          /\ pc' = "saving_final"
    /\ UNCHANGED <<min_population, max_settlements, cso_settlements,
                   grouped_cso_settlements, settlements, fpc, names, batch_size,
                   results, names_to_process, batch_i, pos, requests, start_results,
                   unresolved, population_csv, settlements_json, missing_json,
                   unmatched_json, append, runs, last_run, api_key, csv_exists, existing_data,
                   total_ireland_population, locations, not_found>>

\* a run that clears the checkpoints before it writes settlements.json
WriteOpenAfterCleanup ==
    /\ pc = "write_open"
    /\ checkpoints' = NoCheckpoints
    /\ settlements_json' = Truncated
    /\ pc' = "write_dump"
    /\ UNCHANGED <<dataVars, fetchVars, population_csv, missing_json, unmatched_json,
                   runVars>>

\* line 746: open(..., 'w') empties settlements.json
WriteOpen ==
    /\ pc = "write_open"
    /\ settlements_json' = Truncated
    /\ pc' = "write_dump"
    /\ UNCHANGED <<min_population, max_settlements, cso_settlements,
                   grouped_cso_settlements, settlements, grouped_settlements,
                   final_settlements, checkpoints, fpc, names, batch_size, results,
                   names_to_process, batch_i, pos, requests, start_results, unresolved,
                   population_csv, missing_json, unmatched_json, append, runs, last_run, api_key, csv_exists,
                   existing_data, total_ireland_population, locations, not_found,
                   final_data, loaded>>

\* line 747: json.dump has written final_data
WriteDump ==
    /\ pc = "write_dump"
    /\ settlements_json' = Complete(final_data)
    /\ pc' = "cleanup"
    /\ UNCHANGED <<min_population, max_settlements, cso_settlements,
                   grouped_cso_settlements, settlements, grouped_settlements,
                   final_settlements, checkpoints, fpc, names, batch_size, results,
                   names_to_process, batch_i, pos, requests, start_results, unresolved,
                   population_csv, missing_json, unmatched_json, append, runs, last_run, api_key, csv_exists,
                   existing_data, total_ireland_population, locations, not_found,
                   final_data, loaded>>

\* lines 754-758: the checkpoints are cleared when the recorded failure rate is
\* at most 0.1, and the run ends with status 0
Cleanup ==
    /\ pc = "cleanup"
    /\ checkpoints' =
         IF FailureRateHigh(final_data.metadata.failure_rate.num,
                            final_data.metadata.failure_rate.den)
         THEN checkpoints ELSE NoCheckpoints
    /\ pc' = "exit0"
    /\ UNCHANGED <<min_population, max_settlements, cso_settlements,
                   grouped_cso_settlements, settlements, grouped_settlements,
                   final_settlements, fpc, names, batch_size, results,
                   names_to_process, batch_i, pos, requests, start_results, unresolved,
                   population_csv, settlements_json, missing_json, unmatched_json,
                   append, runs, last_run, api_key, csv_exists, existing_data, total_ireland_population, locations,
                   not_found, final_data, loaded>>

\* the process is interrupted or killed inside clear_checkpoints, after the
\* first file of the glob, whichever it is, is unlinked and before the next is
ClearInterrupted ==
    /\ \/ pc = "clearing"
       \/ /\ pc = "cleanup"
          /\ ~FailureRateHigh(final_data.metadata.failure_rate.num,
                              final_data.metadata.failure_rate.den)
    /\ \E gone \in SUBSET {s \in Stages : checkpoints[s].state # "absent"} :
          /\ Cardinality(gone) = 1
          /\ gone # {s \in Stages : checkpoints[s].state # "absent"}
          /\ checkpoints' = [s \in Stages |-> IF s \in gone THEN Absent ELSE checkpoints[s]]
    /\ pc' = "killed"
    /\ MemoryReset
    /\ UNCHANGED <<min_population, max_settlements, population_csv, settlements_json,
                   missing_json, unmatched_json, append, runs, last_run, api_key, csv_exists>>

\* the process is interrupted or killed (KeyboardInterrupt, a signal, power)
\* between two steps; its memory is gone and the files stay as they are
Interrupt ==
    /\ Running
    /\ pc' = "killed"
    /\ MemoryReset
    /\ UNCHANGED <<min_population, max_settlements, checkpoints, population_csv,
                   settlements_json, missing_json, unmatched_json, append, runs, last_run, api_key, csv_exists>>

\* analyze_missing_settlements.py is run between two runs of main: the rows of
\* Population.csv whose name is no constituent in settlements.json are written
\* to missing_settlements_analysis.json
AnalyzeMissing ==
    /\ pc \in {"exit0", "exit1", "killed"}
    /\ csv_exists
    /\ settlements_json.state = "complete"
    /\ missing_json' = Complete(MissingRows(population_csv, settlements_json.data))
    /\ missing_json' # missing_json
    /\ UNCHANGED <<pc, min_population, max_settlements, cso_settlements,
                   grouped_cso_settlements, settlements, grouped_settlements,
                   final_settlements, checkpoints, fpc, names, batch_size, results,
                   names_to_process, batch_i, pos, requests, start_results, unresolved,
                   population_csv, settlements_json, unmatched_json, append, runs, last_run, api_key, csv_exists,
                   existing_data, total_ireland_population, locations, not_found,
                   final_data, loaded>>

Next ==
    \/ StartRun
    \/ Stage1
    \/ AppendLoad
    \/ ClearForAppend
    \/ Stage2
    \/ Stage3Call
    \/ FetchEnter
    \/ FetchRequest
    \/ FetchRequestRaises
    \/ FetchSaveOpen
    \/ FetchSaveDump
    \/ Stage4
    \/ Stage3Raised
    \/ SaveDump
    \/ Gate
    \/ Stage5
    \/ WriteOpen
    \/ WriteDump
    \/ Cleanup
    \/ ClearInterrupted
    \/ Interrupt
    \/ AnalyzeMissing

Spec == MainInit /\ [][Next]_vars



\* ================================================================ claims

\* whether pregroup_small_settlements has been applied to cso_settlements
Pregrouped == pc \in {"pregrouped", "geocoded", "clustered", "merged", "raised"}

\* whether the call took the reduction branch
Reduced == Len(cso_settlements) > max_settlements

\* the positions of the commas of a name
CommaPositions(name) == {i \in 1..Len(name) : name[i] = ","}

\* the k-th smallest element of a set of numbers
KthSmallest(S, k) == CHOOSE x \in S : Cardinality({y \in S : y < x}) = k - 1

\* the text between the first and the second comma of a name (to the end of a
\* name of one comma), without its leading and trailing blanks; empty without comma
RegionField(name) ==
    LET commas == CommaPositions(name)
        from == KthSmallest(commas, 1) + 1
        to == IF Cardinality(commas) > 1 THEN KthSmallest(commas, 2) - 1 ELSE Len(name)
        solid == {i \in from..to : name[i] # " "}
    IN  IF commas = {} \/ solid = {} THEN <<>>
        ELSE SubSeq(name, KthSmallest(solid, 1), KthSmallest(solid, Cardinality(solid)))

\* the substring after the first comma of a name; empty without comma
RestAfterFirstComma(name) ==
    LET commas == CommaPositions(name)
    IN  IF commas = {} THEN <<>>
        ELSE SubSeq(name, KthSmallest(commas, 1) + 1, Len(name))

\* the population the input list gives a name
InputPopulation(name) ==
    LET i == CHOOSE k \in 1..Len(cso_settlements) : cso_settlements[k].name = name
    IN  cso_settlements[i].population

RECURSIVE SumInputPopulation(_)
SumInputPopulation(name_list) ==
    IF name_list = <<>> THEN 0
    ELSE InputPopulation(Head(name_list)) + SumInputPopulation(Tail(name_list))

\* ---------------------------------------------------------------- C1
\* C1: the populations of the list pregroup_small_settlements returns sum to the
\* sum over its input; on the reduction branch the difference computed at the
\* validation step is 0 and the returned list is the list built before that
\* step, so the redistribution changes no population.
C1_PregroupConservesPopulation ==
    Pregrouped =>
        /\ SumPopulation(grouped_cso_settlements) = SumPopulation(cso_settlements)
        /\ Reduced =>
             /\ PopulationDifference(cso_settlements, min_population) = 0
             /\ grouped_cso_settlements = PregroupResult(cso_settlements, min_population)

\* a reduction that merged at least two settlements into one
C1_Witness ==
    /\ pc = "pregrouped"
    /\ Reduced
    /\ \E i \in 1..Len(grouped_cso_settlements) :
         Len(grouped_cso_settlements[i].constituent_settlements) > 1
    /\ Len(grouped_cso_settlements) < Len(cso_settlements)

\* ---------------------------------------------------------------- C2
\* C2: group_settlements puts every settlement of S in exactly one group, and
\* process_settlement_group produces for those groups settlements whose
\* populations sum to the sum over S.
C2_ClusterPartitionAndSum ==
    pc \in {"merged", "raised"} =>
        /\ pc = "merged"
        /\ Len(final_settlements) = Len(grouped_settlements)
        /\ SumPopulation(final_settlements) = SumPopulation(settlements)
        /\ \A k \in 1..Len(settlements) :
             Cardinality({<<g, m>> \in (1..Len(grouped_settlements)) \X (1..Len(settlements)) :
                            /\ m <= Len(grouped_settlements[g])
                            /\ grouped_settlements[g][m] = settlements[k]}) = 1

\* ---------------------------------------------------------------- C3
\* a run without --append has written settlements.json
WroteWithoutAppend ==
    /\ pc \in {"cleanup", "exit0"}
    /\ ~append
    /\ settlements_json.state = "complete"

\* the run computed stage 2 and stage 5 itself: neither load_checkpoint gave data
ComputedStages == loaded \cap {"grouped_settlements", "final_settlements"} = {}

\* the grouped settlements of the run that the written dataset lists as unmatched
UnmatchedGrouped ==
    LET unmatched == settlements_json.data.metadata.unmatched_settlements
        Unmatched(s) == \E i \in 1..Len(unmatched) : unmatched[i] = s.name
    IN  SelectSeq(grouped_cso_settlements, Unmatched)

ConstituentNames(seq) ==
    UNION {{seq[i].constituent_settlements[j] :
               j \in 1..Len(seq[i].constituent_settlements)} : i \in 1..Len(seq)}

\* the constituent_settlements lists are pairwise disjoint and repeat no name
DisjointConstituents(seq) ==
    /\ \A i, j \in 1..Len(seq) :
          i # j => \A a \in 1..Len(seq[i].constituent_settlements) :
                      \A b \in 1..Len(seq[j].constituent_settlements) :
                         seq[i].constituent_settlements[a]
                            # seq[j].constituent_settlements[b]
    /\ \A i \in 1..Len(seq) :
          \A a, b \in 1..Len(seq[i].constituent_settlements) :
             a # b => seq[i].constituent_settlements[a]
                         # seq[i].constituent_settlements[b]

\* the input names the unmatched grouped settlements stand for
UnmatchedNames ==
    UNION {{ConstituentsOrName(UnmatchedGrouped[i])[j] :
               j \in 1..Len(ConstituentsOrName(UnmatchedGrouped[i]))} :
           i \in 1..Len(UnmatchedGrouped)}

C5_PurityBySubstringAfterFirstComma ==
    /\ Pregrouped =>
         \A i \in 1..Len(grouped_cso_settlements) :
            LET cs == ConstituentsOrName(grouped_cso_settlements[i])
            IN  \A a, b \in 1..Len(cs) :
                   RestAfterFirstComma(cs[a]) = RestAfterFirstComma(cs[b])
    /\ pc = "merged" =>
         \A i \in 1..Len(final_settlements) :
            LET cs == final_settlements[i].constituent_settlements
            IN  \A a, b \in 1..Len(cs) :
                   RestAfterFirstComma(cs[a]) = RestAfterFirstComma(cs[b])

\* C5 amended: no settlement of the pregrouper or of clustering and merging has
\* two constituent names of different administrative regions, the region of a
\* name being the blank-stripped text between its first and its second comma
\* (to the end of the name when it has one comma, empty when it has none).
C5_PurityByRegionField ==
    /\ Pregrouped =>
         \A i \in 1..Len(grouped_cso_settlements) :
            LET cs == ConstituentsOrName(grouped_cso_settlements[i])
            IN  \A a, b \in 1..Len(cs) : RegionField(cs[a]) = RegionField(cs[b])
    /\ pc = "merged" =>
         \A i \in 1..Len(final_settlements) :
            LET cs == final_settlements[i].constituent_settlements
            IN  \A a, b \in 1..Len(cs) : RegionField(cs[a]) = RegionField(cs[b])

\* a merged settlement holding a name of one comma and a name of two commas,
\* next to a settlement of another region
C5_Witness ==
    /\ pc = "merged"
    /\ Len(final_settlements) > 1
    /\ \E i \in 1..Len(final_settlements) :
         LET cs == final_settlements[i].constituent_settlements
         IN  \E a, b \in 1..Len(cs) :
                /\ Cardinality(CommaPositions(cs[a])) = 1
                /\ Cardinality(CommaPositions(cs[b])) = 2

\* ---------------------------------------------------------------- C6
\* C6 as stated: when the input count exceeds max_settlements, every returned
\* settlement has population >= min_population.
C6_EveryOutputAtFloor ==
    (Pregrouped /\ Reduced) =>
        \A i \in 1..Len(grouped_cso_settlements) :
           grouped_cso_settlements[i].population >= min_population

\* C6 amended: when the input count exceeds max_settlements, at most one
\* returned settlement per administrative region has population below
\* min_population, and every input settlement whose population met the floor
\* is in the returned list unchanged.
C6_AtMostOneBelowFloorPerRegion ==
    (Pregrouped /\ Reduced) =>
        /\ \A i, j \in 1..Len(grouped_cso_settlements) :
              ( /\ i # j
                /\ grouped_cso_settlements[i].population < min_population
                /\ grouped_cso_settlements[j].population < min_population )
              => RegionField(grouped_cso_settlements[i].name)
                   # RegionField(grouped_cso_settlements[j].name)
        /\ \A k \in 1..Len(cso_settlements) :
              cso_settlements[k].population >= min_population
              => Cardinality({i \in 1..Len(grouped_cso_settlements) :
                                grouped_cso_settlements[i] = cso_settlements[k]}) = 1

\* a reduction that returns a settlement below the floor next to a merged
\* settlement at the floor
C6_Witness ==
    /\ pc = "pregrouped"
    /\ Reduced
    /\ \E i, j \in 1..Len(grouped_cso_settlements) :
          /\ grouped_cso_settlements[i].population < min_population
          /\ grouped_cso_settlements[j].population >= min_population
          /\ Len(grouped_cso_settlements[j].constituent_settlements) > 1

\* ---------------------------------------------------------------- C7
\* the input of the scenario
ScenarioInput == <<Settlement(NameA, 500), Settlement(NameB, 600)>>

\* the result the scenario names
ScenarioResult ==
    <<[name |-> NameB, population |-> 1100, constituent_settlements |-> <<NameB, NameA>>]>>

\* C7 as stated: with min_population = 1000 the scenario's input comes back as
\* one settlement 'B, Region1' of population 1100 with constituents
\* ['B, Region1', 'A, Region1'], whatever max_settlements is.
C7_ScenarioForEveryMaxSettlements ==
    (Pregrouped /\ min_population = 1000 /\ cso_settlements = ScenarioInput)
        => grouped_cso_settlements = ScenarioResult

\* C7 amended: with min_population = 1000 and max_settlements < 2 the
\* scenario's input comes back as that one settlement; and whenever the input
\* count exceeds max_settlements, a settlement merged from two or more
\* same-region sub-floor settlements carries the name of its largest member,
\* the sum of the members' populations and the members' names in descending
\* order of population.
C7_ScenarioWhenReducing ==
    /\ (Pregrouped /\ min_population = 1000 /\ max_settlements < 2
          /\ cso_settlements = ScenarioInput)
         => grouped_cso_settlements = ScenarioResult
    /\ (Pregrouped /\ Reduced) =>
         \A i \in 1..Len(grouped_cso_settlements) :
            LET g == grouped_cso_settlements[i]
                cs == g.constituent_settlements
            IN  cs # <<>> =>
                  /\ Len(cs) > 1
                  /\ \A a \in 1..Len(cs) :
                        /\ cs[a] \in NamesOf(cso_settlements)
                        /\ InputPopulation(cs[a]) < min_population
                        /\ RegionField(cs[a]) = RegionField(cs[1])
                  /\ \A a, b \in 1..Len(cs) :
                        a < b => InputPopulation(cs[a]) >= InputPopulation(cs[b])
                  /\ g.name = cs[1]
                  /\ g.population = SumInputPopulation(cs)

\* the scenario, run with max_settlements below the input count
C7_Witness ==
    /\ pc = "pregrouped"
    /\ min_population = 1000
    /\ max_settlements < 2
    /\ cso_settlements = ScenarioInput
    /\ grouped_cso_settlements = ScenarioResult

\* ---------------------------------------------------------------- C8
\* C8: when the input count is <= max_settlements, pregroup_small_settlements
\* returns its input: the same settlements in the same order, nothing merged.
C8_FastPathReturnsInput ==
    (Pregrouped /\ ~Reduced) => grouped_cso_settlements = cso_settlements

\* a fast-path call on an unsorted list with two settlements of one region
\* below the floor
C8_Witness ==
    /\ pc = "pregrouped"
    /\ ~Reduced
    /\ cso_settlements # SortedByPop(cso_settlements)
    /\ \E i, j \in 1..Len(cso_settlements) :
          /\ i # j
          /\ cso_settlements[i].population < min_population
          /\ cso_settlements[j].population < min_population
          /\ RegionField(cso_settlements[i].name) = RegionField(cso_settlements[j].name)
    /\ grouped_cso_settlements = cso_settlements

\* ---------------------------------------------------------------- C9
\* C9: in one invocation of fetch_locations_batch over unique names, a name that
\* was a key of the locations checkpoint when the invocation loaded it gets no
\* request and keeps the checkpoint's coordinate in the mapping; every other
\* name gets at most one request at any moment and has got exactly one when
\* the invocation returns, whether or not the request resolved it.
C9_OneRequestPerNewName ==
    fpc \in {"batch", "saving", "returned", "raised", "killed"} =>
        \A n \in DOMAIN requests :
           /\ requests[n] <= 1
           /\ n \in DOMAIN start_results =>
                /\ requests[n] = 0
                /\ n \in DOMAIN results
                /\ results[n] = start_results[n]
           /\ (fpc = "returned" /\ n \notin DOMAIN start_results) => requests[n] = 1

\* a returned invocation with a name taken from the checkpoint, a name its one
\* request resolved and a name its one request did not resolve
C9_Witness ==
    /\ fpc = "returned"
    /\ \E a, b, c \in DOMAIN requests :
          /\ a \in DOMAIN start_results /\ requests[a] = 0
          /\ b \notin DOMAIN start_results /\ requests[b] = 1 /\ b \in DOMAIN results
          /\ c \notin DOMAIN start_results /\ requests[c] = 1 /\ c \notin DOMAIN results

\* ---------------------------------------------------------------- C10
\* the names the locations checkpoint on disk gives a location to
PersistedNames ==
    IF checkpoints.locations.state = "complete"
    THEN DOMAIN checkpoints.locations.data ELSE {}

\* C10: at every point of fetch_locations_batch at which the process may crash
\* or be interrupted, at most batch_size names are resolved in memory and
\* missing from the locations checkpoint on disk, and every result of a
\* completed batch is in that checkpoint.
C10_AtMostOneBatchUnsaved ==
    fpc \in {"batch", "saving"} =>
        /\ Cardinality(DOMAIN results \ PersistedNames) <= batch_size
        /\ \A k \in 1..batch_i :
              names_to_process[k] \in DOMAIN results
              => names_to_process[k] \in PersistedNames

\* ---------------------------------------------------------------- C11
\* the run stands at the gate with more than 10% of its names unresolved
HighRateAtGate ==
    /\ pc = "gate"
    /\ 10 * Len(not_found) > Len(names)

\* the pc values between the gate and the end of a run that went on
AfterGate == {"stage5", "saving_final", "write_open", "write_dump", "cleanup", "exit0"}

\* C11: when more than 10% of the grouped settlement names are left unresolved
\* after the geocoding pass, the run ends with exit status 1, deletes no
\* checkpoint file, has written the unmatched settlements file, and writes
\* neither the final_settlements checkpoint nor settlements.json. A process
\* killed at the gate is left aside.
C11_HighRateHalts ==
    /\ [](pc \in AfterGate => 10 * Len(not_found) <= Len(names))
    /\ [][(HighRateAtGate /\ pc' # "killed") =>
             /\ pc' = "exit1"
             /\ checkpoints' = checkpoints
             /\ settlements_json' = settlements_json
             /\ unmatched_json'.state = "complete"
             /\ [i \in 1..Len(unmatched_json'.data) |-> unmatched_json'.data[i].name]
                   = not_found]_vars

\* a run that exited with status 1 at the gate: 2 of 10 names unresolved, the
\* unmatched settlements file lists them, the checkpoints it wrote are there
C11_Witness ==
    /\ pc = "exit1"
    /\ Len(not_found) = 2
    /\ Len(names) = 10
    /\ unmatched_json.state = "complete"
    /\ Len(unmatched_json.data) = 2
    /\ checkpoints.processed_settlements.state = "complete"
    /\ checkpoints.final_settlements.state = "absent"
    /\ settlements_json.state = "absent"

\* ---------------------------------------------------------------- C12
\* C12: when at most 10% of the names are unresolved (exactly 10% included) and
\* at least one settlement was geocoded, the run goes on from the gate, does
\* not end with status 1 before settlements.json is written, and then deletes
\* every checkpoint file; the checkpoints are deleted at the end only when the
\* recorded failure rate is at most 10%. A killed process is left aside.
C12_LowRateWritesThenClears ==
    /\ [][(/\ pc = "gate"
            /\ 10 * Len(not_found) <= Len(names)
            /\ settlements # <<>>
            /\ pc' # "killed") => pc' = "stage5"]_vars
    /\ [][(pc \in AfterGate /\ pc' # "killed") => pc' # "exit1"]_vars
    /\ [][(pc = "cleanup" /\ pc' = "exit0") =>
             /\ settlements_json.state = "complete"
             /\ checkpoints' = NoCheckpoints]_vars
    /\ [][(pc = "cleanup" /\ checkpoints' # checkpoints) =>
             10 * settlements_json.data.metadata.failure_rate.num
                <= settlements_json.data.metadata.failure_rate.den]_vars

\* ---------------------------------------------------------------- C13
\* a file holding exactly one complete snapshot of data
Holds(file, data) == file.state = "complete" /\ file.data = data

\* a step of a run without --append that is not the death of the process
NormalStep == ~append /\ pc' # "killed"

\* stages 1, 2 and 5: a complete checkpoint is the output of the stage and
\* nothing is computed or written; without a checkpoint file the stage is
\* computed and its checkpoint is written. A run reaches stage 1 when the API
\* key is set, and stage 1 is computed from Population.csv.
SkipOrComputeStages125 ==
    /\ (pc = "start" /\ api_key /\ checkpoints.cso_settlements.state = "complete") =>
           /\ cso_settlements' = checkpoints.cso_settlements.data
           /\ checkpoints' = checkpoints
           /\ pc' = "stage2"
    /\ (pc = "start" /\ api_key /\ csv_exists
           /\ checkpoints.cso_settlements.state = "absent") =>
           /\ cso_settlements' = population_csv
           /\ pc' = "saving_cso"
    /\ pc = "saving_cso" =>
           /\ Holds(checkpoints'.cso_settlements, cso_settlements)
           /\ pc' = "stage2"
    /\ (pc = "stage2" /\ checkpoints.grouped_settlements.state = "complete") =>
           /\ grouped_cso_settlements' = checkpoints.grouped_settlements.data
           /\ checkpoints' = checkpoints
           /\ pc' = "stage3"
    /\ (pc = "stage2" /\ checkpoints.grouped_settlements.state = "absent") =>
           /\ grouped_cso_settlements' =
                 pregroup_small_settlements(cso_settlements, min_population,
                                            max_settlements)
           /\ pc' = "saving_grouped"
    /\ pc = "saving_grouped" =>
           /\ Holds(checkpoints'.grouped_settlements, grouped_cso_settlements)
           /\ pc' = "stage3"
    /\ (pc = "stage5" /\ checkpoints.final_settlements.state = "complete") =>
           /\ final_data' = checkpoints.final_settlements.data
           /\ checkpoints' = checkpoints
           /\ pc' = "write_open"
    /\ (pc = "stage5" /\ checkpoints.final_settlements.state = "absent") =>
           /\ grouped_settlements' = group_settlements(settlements, DefaultMaxDistance)
           /\ pc' \in {"saving_final", "exit1"}
    /\ pc = "saving_final" =>
           /\ Holds(checkpoints'.final_settlements, final_data)
           /\ pc' = "write_open"

\* C13 as stated: for each of the five stage identifiers, when the checkpoint of
\* the stage exists as a non-append run reaches the stage, the computation of
\* the stage is skipped and the checkpointed value is its output; otherwise the
\* stage is computed and its checkpoint is written.
C13_EveryStageSkipsOnCheckpoint ==
    [][NormalStep =>
         /\ SkipOrComputeStages125
         /\ (pc = "fetching" /\ fpc = "call"
                /\ checkpoints.locations.state = "complete") =>
               /\ results' = checkpoints.locations.data
               /\ fpc' = "returned"
         /\ (pc = "fetching" /\ fpc = "call"
                /\ checkpoints.locations.state = "absent") =>
               /\ results' = <<>>
               /\ names_to_process' = names
         /\ (pc = "fetching" /\ fpc = "saving") =>
               Holds(checkpoints'.locations, results)
         /\ (pc = "fetching" /\ fpc = "returned"
                /\ checkpoints.processed_settlements.state = "complete") =>
               /\ <<settlements', not_found'>> = checkpoints.processed_settlements.data
               /\ checkpoints' = checkpoints
         /\ (pc = "fetching" /\ fpc = "returned"
                /\ checkpoints.processed_settlements.state = "absent") =>
               /\ settlements' = Stage4Settlements(grouped_cso_settlements, results)
               /\ pc' = "saving_processed"
         /\ pc = "saving_processed" =>
               Holds(checkpoints'.processed_settlements, <<settlements, not_found>>)]_vars

\* C13 amended: in a non-append run, stages cso_settlements, grouped_settlements
\* and final_settlements use a complete checkpoint as their output and compute
\* and write nothing, and are computed and checkpointed when there is no file;
\* the locations stage starts from its checkpoint, still queries every name
\* the checkpoint does not hold and rewrites the checkpoint after each batch;
\* the processed_settlements checkpoint is never read: stage 4 is computed
\* from the grouped settlements and the locations and written in every run.
C13_StagesSkipExceptLocationsAndProcessed ==
    [][NormalStep =>
         /\ SkipOrComputeStages125
         /\ (pc = "fetching" /\ fpc = "call"
                /\ checkpoints.locations.state = "complete") =>
               LET NotHeld(name) == name \notin DOMAIN checkpoints.locations.data
               IN  /\ results' = checkpoints.locations.data
                   /\ names_to_process' = SelectSeq(names, NotHeld)
                   /\ fpc' = "returned" <=> names_to_process' = <<>>
         /\ (pc = "fetching" /\ fpc = "call"
                /\ checkpoints.locations.state = "absent") =>
               /\ results' = <<>>
               /\ names_to_process' = names
         /\ (pc = "fetching" /\ fpc = "batch" /\ pos' = pos + 1) =>
               /\ names_to_process[pos] \notin DOMAIN start_results
               /\ requests'[names_to_process[pos]] = 1
         /\ (pc = "fetching" /\ fpc = "saving") =>
               Holds(checkpoints'.locations, results)
         /\ (pc = "fetching" /\ fpc = "returned") =>
               /\ settlements' = Stage4Settlements(grouped_cso_settlements, results)
               /\ not_found' = Stage4NotFound(grouped_cso_settlements, results)
               /\ checkpoints'.processed_settlements.state = "truncated"
               /\ pc' = "saving_processed"
         /\ pc = "saving_processed" =>
               Holds(checkpoints'.processed_settlements, <<settlements, not_found>>)]_vars

\* a non-append run that took stages 1 and 2 from their checkpoints, started
\* stage 3 from a locations checkpoint that lacked one of its names, found a
\* processed_settlements checkpoint, computed stage 4 and stage 5 and ended
C13_Witness ==
    /\ pc = "exit0"
    /\ ~append
    /\ loaded = {"cso_settlements", "grouped_settlements"}
    /\ start_results # <<>>
    /\ DOMAIN start_results # DOMAIN results
    /\ Len(settlements) > Cardinality(DOMAIN start_results)

\* ---------------------------------------------------------------- C14
\* C14: at every point at which the process can be interrupted or fail, the
\* middle of save_checkpoint included, each checkpoint file is absent or holds
\* one complete snapshot that a save_checkpoint call finished writing, never a
\* truncated or partly written one, and what the locations checkpoint held
\* when fetch_locations_batch started is still in it.
C14_CheckpointsNeverTruncated ==
    /\ \A stage \in Stages : checkpoints[stage].state \in {"absent", "complete"}
    /\ DOMAIN start_results \subseteq PersistedNames

\* ---------------------------------------------------------------- C15
\* the run was started with the arguments of the run before it, and that run
\* ended with status 1
Rerun == last_run.status = "exit1" /\ last_run.append = append

\* a step of such a run that is not the death of the process
RerunStep == Rerun /\ pc' # "killed"

\* the rerun, which reaches stage 1 when the API key is set, takes stages 1, 2
\* and 5 from a complete checkpoint
RerunLoads ==
    /\ (pc = "start" /\ ~append /\ api_key
           /\ checkpoints.cso_settlements.state = "complete") =>
           /\ cso_settlements' = checkpoints.cso_settlements.data
           /\ checkpoints' = checkpoints
    /\ (pc = "stage2" /\ checkpoints.grouped_settlements.state = "complete") =>
           /\ grouped_cso_settlements' = checkpoints.grouped_settlements.data
           /\ checkpoints' = checkpoints
    /\ (pc = "stage5" /\ checkpoints.final_settlements.state = "complete") =>
           /\ final_data' = checkpoints.final_settlements.data
           /\ checkpoints' = checkpoints

\* the rerun sends no request for a name the locations checkpoint held
RerunKeepsLocations ==
    /\ (pc = "fetching" /\ fpc = "call"
           /\ checkpoints.locations.state = "complete") =>
          /\ start_results' = checkpoints.locations.data
          /\ results' = checkpoints.locations.data
    /\ (pc = "fetching" /\ fpc = "batch" /\ pos' = pos + 1) =>
          names_to_process[pos] \notin DOMAIN start_results

C15_WitnessAppend ==
    /\ Rerun
    /\ append
    /\ pc = "fetching"
    /\ fpc = "batch"
    /\ start_results = <<>>
    /\ names_to_process = names
    /\ names # <<>>

\* ---------------------------------------------------------------- C16
\* the pc values of a run from the start of stage 2 to its last step
FromStage2 == {"stage2", "saving_grouped", "stage3", "fetching", "saving_processed",
               "gate", "stage5", "saving_final", "write_open", "write_dump",
               "cleanup"}

\* C16: in a run with --append, once settlements.json and the missing
\* settlements are loaded, every checkpoint file is deleted before stage 2
\* starts, whatever files there were; the cso_settlements checkpoint is neither
\* read nor written, no checkpoint of an earlier run is loaded, and the stages
\* from stage 2 on compute from the list of missing settlements only.
C16_AppendStartsFromNoCheckpoint ==
    (append /\ pc \in FromStage2) =>
        /\ pc = "stage2" => \A stage \in Stages : checkpoints[stage].state = "absent"
        /\ checkpoints.cso_settlements.state = "absent"
        /\ loaded = {}
        /\ cso_settlements = missing_json.data
        /\ pc # "stage2" =>
              /\ total_ireland_population = SumPopulation(missing_json.data)
              /\ grouped_cso_settlements =
                    pregroup_small_settlements(missing_json.data, min_population,
                                               max_settlements)
        /\ pc \notin {"stage2", "saving_grouped", "stage3"} =>
              names = [i \in 1..Len(grouped_cso_settlements) |->
                          grouped_cso_settlements[i].name]

\* a run with --append at stage 3, started after a run without --append that
\* wrote its checkpoints and ended with status 1 at the gate with two names
\* unresolved
C16_Witness ==
    /\ append
    /\ pc = "stage3"
    /\ last_run = [status |-> "exit1", append |-> FALSE]
    /\ unmatched_json.state = "complete"
    /\ Len(unmatched_json.data) = 2
    /\ cso_settlements # <<>>
    /\ checkpoints.grouped_settlements.state = "complete"
    /\ checkpoints.locations.state = "absent"

\* ---------------------------------------------------------------- C17
\* a run with --append has built final_data from existing_data and its own
\* final settlements
AppendCombined ==
    /\ append
    /\ pc \in {"saving_final", "write_open", "write_dump", "cleanup", "exit0"}

\* by how much the existing total and the new total together exceed
\* metadata.total_ireland_population of the existing dataset
Excess ==
    SumPopulation(existing_data.settlements) + SumPopulation(final_settlements)
    - existing_data.metadata.total_ireland_population

\* C17: in a run with --append, when the total of the existing settlements
\* plus the total of the newly finalized settlements exceeds
\* metadata.total_ireland_population by X > 0, the populations of the existing
\* settlements are reduced by exactly X in aggregate, and the combined
\* total_population written equals total_ireland_population.
C17_UndistributesExactlyExcess ==
    (AppendCombined /\ Excess > 0) =>
        LET before == existing_data.settlements
            after == SubSeq(final_data.settlements, 1, Len(before))
        IN  /\ SumPopulation(before) - SumPopulation(after) = Excess
            /\ final_data.metadata.total_population
                  = final_data.metadata.total_ireland_population

\* ---------------------------------------------------------------- C18
\* an exception is about to be raised in a stage of main: pickle.load on a
\* truncated checkpoint, an exception that left fetch_locations_batch, or the
\* division by the population 0 of a cluster in stage 5
ExceptionAhead ==
    \/ pc = "start" /\ ~append /\ checkpoints.cso_settlements.state = "truncated"
    \/ pc = "stage2" /\ checkpoints.grouped_settlements.state = "truncated"
    \/ pc = "fetching" /\ fpc = "raised"
    \/ pc = "stage5" /\ checkpoints.final_settlements.state = "truncated"
    \/ /\ pc = "stage5"
       /\ checkpoints.final_settlements.state = "absent"
       /\ \E i \in 1..Len(group_settlements(settlements, DefaultMaxDistance)) :
             SumPopulation(group_settlements(settlements, DefaultMaxDistance)[i]) = 0

\* C18: an exception raised in a stage of main, one that left
\* fetch_locations_batch, the pregrouper, the clusterer or the merger included,
\* ends the run with exit status 1, and its handling deletes no checkpoint file:
\* every checkpoint that existed when it was raised exists after the exit.
C18_ExceptionExitsOneKeepsCheckpoints ==
    [][/\ (ExceptionAhead /\ pc' # "killed") =>
             /\ pc' = "exit1"
             /\ checkpoints' = checkpoints
       /\ (fpc' = "raised" /\ fpc # "raised") => checkpoints' = checkpoints
       /\ (pc' = "exit1" /\ pc # "exit1") =>
             \A stage \in Stages :
                checkpoints[stage].state # "absent"
                => checkpoints'[stage] = checkpoints[stage]]_vars

\* a run that ended with status 1 on the exception of a request in stage 3; the
\* checkpoints of stages 1 and 2 it wrote are there
C18_Witness ==
    /\ pc = "exit1"
    /\ fpc = "idle"
    /\ names # <<>>
    /\ \E n \in DOMAIN requests : requests[n] = 1
    /\ settlements = <<>>
    /\ loaded = {}
    /\ checkpoints.cso_settlements.state = "complete"
    /\ checkpoints.grouped_settlements.state = "complete"

\* ---------------------------------------------------------------- C19
\* the row passes the statistic filter and float() does not read its VALUE
Unparseable(row) ==
    /\ row.STATISTIC = "F1011C01"
    /\ Strip(row.VALUE) # <<>>
    /\ ~IsFloat(Strip(row.VALUE))

\* the row passes the statistic filter and float() reads its VALUE
Parseable(row) ==
    /\ row.STATISTIC = "F1011C01"
    /\ Strip(row.VALUE) # <<>>
    /\ IsFloat(Strip(row.VALUE))

\* C19: during ingestion a row that passes the statistic filter and whose
\* population value is no number is skipped without ending the run: the other
\* rows are still ingested and the stage returns the settlements of all the
\* rows whose value is a number.
C19_MalformedRowSkipped ==
    (/\ pc \in {"ingested", "ingest_exit1"}
     /\ \E i \in 1..Len(population_csv) : Unparseable(population_csv[i])
     /\ \E i \in 1..Len(population_csv) : Parseable(population_csv[i])) =>
        /\ pc = "ingested"
        /\ cso_settlements = IngestSkippingFrom(population_csv, <<>>).settlements

\* ---------------------------------------------------------------- C20
\* the distance in metres between two geocoded settlements
DistanceBetween(a, b) == calculate_distance(<<a.lat, a.lon>>, <<b.lat, b.lon>>)

\* C20: in every cluster group_settlements returns for the threshold D, each
\* member but the seed, the first member, has a member before it in the
\* cluster, the cluster at the moment it was added, within distance D of it; so
\* every member is linked to the seed by a chain of steps of at most D.
C20_MembersWithinThresholdOfEarlierMember ==
    pc \in {"clustered", "merged", "raised"} =>
        \A g \in 1..Len(grouped_settlements) :
           \A m \in 2..Len(grouped_settlements[g]) :
              \E k \in 1..(m - 1) :
                 DistanceBetween(grouped_settlements[g][k], grouped_settlements[g][m])
                    <= DefaultMaxDistance * 1000

\* a cluster of three whose third member is further than D from the seed and
\* joined through the second
C20_Witness ==
    /\ pc = "clustered"
    /\ \E g \in 1..Len(grouped_settlements) :
          /\ Len(grouped_settlements[g]) = 3
          /\ DistanceBetween(grouped_settlements[g][1], grouped_settlements[g][3])
                > DefaultMaxDistance * 1000
          /\ DistanceBetween(grouped_settlements[g][2], grouped_settlements[g][3])
                <= DefaultMaxDistance * 1000

\* ---------------------------------------------------------------- C21
RECURSIVE OwnConstituents(_)
\* each member's own constituent list, or its name when it has none, one after
\* the other in member order
OwnConstituents(group) ==
    IF group = <<>> THEN <<>>
    ELSE ConstituentsOrName(Head(group)) \o OwnConstituents(Tail(group))

\* the member's population is the largest of the group
HighestPopulation(group, k) ==
    \A m \in 1..Len(group) : group[m].population <= group[k].population

\* C21: for every cluster the merger returns a settlement named after a member
\* of highest population, whose constituent_settlements is the members' own
\* constituent lists (the member's name when it has none) one after the other
\* in member order, with only first occurrences kept.
C21_NameOfLargestAndConstituentsInOrder ==
    pc = "merged" =>
        \A g \in 1..Len(grouped_settlements) :
           LET group == grouped_settlements[g]
               merged == final_settlements[g]
           IN  /\ \E k \in 1..Len(group) :
                     /\ HighestPopulation(group, k)
                     /\ merged.name = group[k].name
               /\ merged.constituent_settlements = Dedup(OwnConstituents(group))

\* a cluster of two members was merged, one of them carrying two constituents
C21_Witness ==
    /\ pc = "merged"
    /\ \E g \in 1..Len(grouped_settlements) :
          /\ Len(grouped_settlements[g]) = 2
          /\ \E k \in 1..2 : Len(grouped_settlements[g][k].constituent_settlements) = 2
          /\ Len(final_settlements[g].constituent_settlements) = 3

\* ---------------------------------------------------------------- C22
\* C22: the merger returns a merged settlement, raising nothing, for every
\* cluster of one or more members of non-negative population, the clusters
\* whose members all have population 0 included.
C22_MergerNeverRaises ==
    pc \in {"merged", "raised"} =>
        \A g \in 1..Len(grouped_settlements) :
           (/\ Len(grouped_settlements[g]) >= 1
            /\ \A k \in 1..Len(grouped_settlements[g]) :
                  grouped_settlements[g][k].population >= 0)
           => /\ pc = "merged"
              /\ final_settlements[g].population = SumPopulation(grouped_settlements[g])

\* ---------------------------------------------------------------- C23
\* a run stands at its start and a startup precondition fails: the API key is
\* not set, or a source file the mode needs does not exist
FailsPrecondition ==
    /\ pc = "start"
    /\ \/ ~api_key
       \/ /\ ~append
          /\ checkpoints.cso_settlements.state = "absent"
          /\ ~csv_exists
       \/ /\ append
          /\ \/ settlements_json.state = "absent"
             \/ missing_json.state = "absent"

\* C23: a run that fails a startup precondition (API key not set; no
\* Population.csv without --append and without cso_settlements checkpoint; no
\* settlements.json or no missing_settlements_analysis.json with --append)
\* exits with a non-zero status, has sent no geocoding request and has created,
\* overwritten or deleted no checkpoint file.
C23_FailedPreconditionTouchesNothing ==
    [][(FailsPrecondition /\ pc' # "killed") =>
          /\ pc' = "exit1"
          /\ requests' = <<>>
          /\ fpc' = "idle"
          /\ checkpoints' = checkpoints]_vars

\* a second run has ended at its start for want of the API key, and the
\* checkpoints the first run left are still there
C23_Witness ==
    /\ pc = "exit1"
    /\ runs = 2
    /\ ~api_key
    /\ cso_settlements = <<>>
    /\ checkpoints.cso_settlements.state = "complete"
    /\ checkpoints.grouped_settlements.state = "complete"

\* ---------------------------------------------------------------- C24
\* the fraction q, of positive denominator, is the integer n
IsInteger(q, n) == q.num = n * q.den

\* the fraction q, of positive denominator, lies between 0 and n
WithinGrid(q, n) == 0 <= q.num /\ q.num <= n * q.den

\* the transform maps the box onto the square of side side: the corner of the
\* least latitude and longitude to (0, 0), the opposite corner to (side, side),
\* every point of the box into the square
MapsBoxOnto(side) ==
    pc = "gridded" =>
        LET s == settlements[1]
            f == final_settlements[1]
        IN  /\ f.grid_x.den > 0 /\ f.grid_y.den > 0
            /\ (s.lat = MinLatTenths /\ s.lon = MinLonTenths) =>
                  IsInteger(f.grid_x, 0) /\ IsInteger(f.grid_y, 0)
            /\ (s.lat = MaxLatTenths /\ s.lon = MaxLonTenths) =>
                  IsInteger(f.grid_x, side) /\ IsInteger(f.grid_y, side)
            /\ WithinGrid(f.grid_x, side) /\ WithinGrid(f.grid_y, side)

\* C24: the transform applied at final-output time maps the bounding box
\* linearly per axis onto [0, 100000] x [0, 100000]: the (min_lat, min_lon)
\* corner to (0, 0), the (max_lat, max_lon) corner to (100000, 100000), every
\* point of the box between those bounds.
C24_BoxOntoHundredThousand == MapsBoxOnto(100000)

\* C24, amended: the square is [0, 50000] x [0, 50000]; the (max_lat, max_lon)
\* corner maps to (50000, 50000), every point of the box between (0, 0) and that.
C24_BoxOntoFiftyThousand == MapsBoxOnto(50000)

\* the settlement at the (max_lat, max_lon) corner has its grid coordinates
C24_Witness ==
    /\ pc = "gridded"
    /\ settlements[1].lat = MaxLatTenths
    /\ settlements[1].lon = MaxLonTenths
    /\ final_settlements[1].grid_x.num > 0

\* ---------------------------------------------------------------- C25
\* the place of the settlement named name in the scan order, the stable sort
\* of the geocoded settlements by descending population
ScanPosition(name) ==
    LET sorted_settlements == SortedByPop(settlements)
    IN  CHOOSE i \in 1..Len(sorted_settlements) : sorted_settlements[i].name = name

\* x and y are of one region and at most DefaultMaxDistance apart
Linked(x, y) ==
    /\ get_admin_region(x.name) = get_admin_region(y.name)
    /\ DistanceBetween(x, y) <= DefaultMaxDistance * 1000

\* the names of the members of the clusters before cluster g
AssignedBefore(g) ==
    UNION {NamesOf(grouped_settlements[h]) : h \in 1..(g - 1)}

\* C25: group_settlements makes one pass per seed and no closure. While the
\* cluster of a seed is built, every settlement of the seed's region that no
\* earlier cluster holds is tested once, in descending-population order,
\* against the members present at that moment, those before it in that order:
\* it joins if and only if one of them is within D, and a settlement skipped
\* is not tested again against the members added after it.
C25_SinglePassPerSeed ==
    pc \in {"clustered", "merged", "raised"} =>
        \A g \in 1..Len(grouped_settlements) :
           LET group == grouped_settlements[g]
               seed == group[1]
           IN  \A i \in 1..Len(settlements) :
                  LET x == settlements[i]
                  IN  (/\ x.name \notin AssignedBefore(g)
                       /\ x.name # seed.name
                       /\ get_admin_region(x.name) = get_admin_region(seed.name))
                      => (x.name \in NamesOf(group)
                          <=> \E k \in 1..Len(group) :
                                 /\ ScanPosition(group[k].name) < ScanPosition(x.name)
                                 /\ Linked(group[k], x))

\* two clusters of one region hold settlements within D of each other: the
\* clusters are not the connected components
C25_Witness ==
    /\ pc = "clustered"
    /\ \E g, h \in 1..Len(grouped_settlements) :
          /\ g < h
          /\ \E k \in 1..Len(grouped_settlements[g]) :
                \E m \in 1..Len(grouped_settlements[h]) :
                   Linked(grouped_settlements[g][k], grouped_settlements[h][m])

\* ---------------------------------------------------------------- C26
\* the pc values of a run of main
RunPcs == {"start", "clearing", "saving_cso", "stage2", "saving_grouped", "stage3",
           "fetching", "saving_processed", "gate", "stage5", "saving_final",
           "write_open", "write_dump", "cleanup"}

\* the stage a run stands in: 1 to 5 for the stages of the checkpoints
\* cso_settlements, grouped_settlements, locations, processed_settlements and
\* final_settlements, 6 for the writing of settlements.json, 7 for the cleanup
StageNumber ==
    CASE pc \in {"start", "clearing", "saving_cso"} -> 1
      [] pc \in {"stage2", "saving_grouped"} -> 2
      [] pc = "stage3" \/ (pc = "fetching" /\ fpc # "returned") -> 3
      [] (pc = "fetching" /\ fpc = "returned") \/ pc = "saving_processed" -> 4
      [] pc \in {"gate", "stage5", "saving_final"} -> 5
      [] pc \in {"write_open", "write_dump"} -> 6
      [] pc = "cleanup" -> 7
      [] OTHER -> 0

\* the stage whose checkpoint a file is
StageOf(file) ==
    CASE file = "cso_settlements" -> 1
      [] file = "grouped_settlements" -> 2
      [] file = "locations" -> 3
      [] file = "processed_settlements" -> 4
      [] file = "final_settlements" -> 5

\* the step writes to the checkpoint file
WritesCheckpoint(file) ==
    /\ checkpoints'[file] # checkpoints[file]
    /\ checkpoints'[file].state # "absent"

\* the step deletes a checkpoint file
DeletesCheckpoint ==
    \E file \in Stages :
       checkpoints[file].state # "absent" /\ checkpoints'[file].state = "absent"

\* C26: within a run the stage events go strictly forward. The run never goes
\* back to an earlier stage and the checkpoint of a stage is written in that
\* stage, so no checkpoint is written after that of a later stage;
\* settlements.json is written only once the final_settlements data exists,
\* loaded from or saved to its checkpoint; and the cleanup at the end of the
\* run happens only after settlements.json has been written.
C26_StagesGoForward ==
    [][/\ (pc \in RunPcs /\ pc' \in RunPcs) => StageNumber <= StageNumber'
       /\ \A file \in Stages :
             WritesCheckpoint(file) => (pc \in RunPcs /\ StageNumber = StageOf(file))
       /\ settlements_json' # settlements_json =>
             /\ StageNumber = 6
             /\ final_data # <<>>
             /\ \/ "final_settlements" \in loaded
                \/ checkpoints.final_settlements = Complete(final_data)
       /\ (DeletesCheckpoint /\ pc # "clearing") =>
             /\ StageNumber = 7
             /\ settlements_json = Complete(final_data)]_vars

\* a run that loaded nothing stands before its cleanup: the five checkpoints
\* and settlements.json are written
C26_Witness ==
    /\ pc = "cleanup"
    /\ loaded = {}
    /\ \A file \in Stages : checkpoints[file].state = "complete"
    /\ settlements_json = Complete(final_data)

\* ---------------------------------------------------------------- C27
\* C27: over any sequence of runs with and without --append, failed or
\* interrupted runs among them, the grouped_settlements checkpoint a run loads
\* at stage 2 was computed from the settlement list the run has as its stage 1
\* input, the list total_ireland_population is the sum of; no run puts the
\* stage 1 input of one mode together with checkpoints a run of the other mode
\* left.
C27_LoadedGroupsComeFromStage1Input ==
    (/\ pc \in {"stage3", "fetching", "saving_processed", "gate", "stage5"}
     /\ "grouped_settlements" \in loaded) =>
        /\ total_ireland_population = SumPopulation(cso_settlements)
        /\ grouped_cso_settlements =
             pregroup_small_settlements(cso_settlements, min_population, max_settlements)

\* ---------------------------------------------------------------- C28
\* the failure rate a final_data records is at most 0.1
RecordsLowRate(data) ==
    10 * data.metadata.failure_rate.num <= data.metadata.failure_rate.den

\* C28: every final_settlements checkpoint the pipeline writes records a
\* failure rate of at most 0.1, the gate having ended the runs of a higher rate
\* before stage 5; so a run that has written settlements.json always clears
\* the checkpoints, and the branch that keeps them is never taken.
C28_FinalCheckpointRecordsLowRate ==
    /\ [](/\ checkpoints.final_settlements.state = "complete" =>
               RecordsLowRate(checkpoints.final_settlements.data)
          /\ pc \in {"saving_final", "write_open", "write_dump", "cleanup"} =>
               RecordsLowRate(final_data))
    /\ [][(pc = "cleanup" /\ pc' # "killed") =>
             (pc' = "exit0" /\ checkpoints' = NoCheckpoints)]_vars

\* a run has written settlements.json from a final_settlements checkpoint
\* that records a failure rate above 0 and stands before its cleanup
C28_Witness ==
    /\ pc = "cleanup"
    /\ checkpoints.final_settlements.state = "complete"
    /\ checkpoints.final_settlements.data.metadata.failure_rate.num > 0
    /\ settlements_json = Complete(checkpoints.final_settlements.data)

\* ---------------------------------------------------------------- C29
\* C29: in the output of group_settlements any two seeds, the first members of
\* their clusters, of one region are more than D apart, and every seed has the
\* highest population of its cluster; so the settlement the merger makes of a
\* cluster has the name of the seed.
C29_SeedsApartAndLargest ==
    pc \in {"clustered", "merged", "raised"} =>
        /\ \A g, h \in 1..Len(grouped_settlements) :
              (/\ g # h
               /\ get_admin_region(grouped_settlements[g][1].name)
                    = get_admin_region(grouped_settlements[h][1].name))
              => DistanceBetween(grouped_settlements[g][1], grouped_settlements[h][1])
                    > DefaultMaxDistance * 1000
        /\ \A g \in 1..Len(grouped_settlements) :
              /\ HighestPopulation(grouped_settlements[g], 1)
              /\ pc = "merged" =>
                    final_settlements[g].name = grouped_settlements[g][1].name

\* two clusters of one region were merged, one of them of two members of
\* different populations
C29_Witness ==
    /\ pc = "merged"
    /\ \E g, h \in 1..Len(grouped_settlements) :
          /\ g # h
          /\ get_admin_region(grouped_settlements[g][1].name)
               = get_admin_region(grouped_settlements[h][1].name)
          /\ Len(grouped_settlements[g]) = 2
          /\ grouped_settlements[g][2].population < grouped_settlements[g][1].population

\* ---------------------------------------------------------------- C30
\* the returned settlement is a group formed from settlements below the floor:
\* it is no input settlement that met the floor
FromSubFloor(s) ==
    ~ \E k \in 1..Len(cso_settlements) :
         cso_settlements[k] = s /\ s.population >= min_population

\* C30: when the pregrouper reduces (input count > max_settlements), at most
\* one returned settlement of each administrative region has a population
\* below min_population, the last group formed of the region, and every other
\* group formed from settlements below the floor has a population from
\* min_population to 2 * min_population - 2.
C30_GroupsBetweenFloorAndTwiceFloor ==
    (Pregrouped /\ Reduced) =>
        \A i \in 1..Len(grouped_cso_settlements) :
           LET s == grouped_cso_settlements[i]
               SameRegionGroup(j) ==
                   /\ j # i
                   /\ FromSubFloor(grouped_cso_settlements[j])
                   /\ get_admin_region(grouped_cso_settlements[j].name)
                        = get_admin_region(s.name)
           IN  FromSubFloor(s) =>
                  IF s.population < min_population
                  THEN \A j \in 1..Len(grouped_cso_settlements) :
                          SameRegionGroup(j) =>
                             /\ j < i
                             /\ grouped_cso_settlements[j].population >= min_population
                  ELSE s.population <= 2 * min_population - 2

\* a reduction that returns, for one region, a group of population
\* 2 * min_population - 2 and after it a last group below the floor
C30_Witness ==
    /\ pc = "pregrouped"
    /\ Reduced
    /\ \E i, j \in 1..Len(grouped_cso_settlements) :
          /\ i < j
          /\ get_admin_region(grouped_cso_settlements[i].name)
               = get_admin_region(grouped_cso_settlements[j].name)
          /\ grouped_cso_settlements[i].population = 2 * min_population - 2
          /\ Len(grouped_cso_settlements[i].constituent_settlements) = 2
          /\ grouped_cso_settlements[j].population < min_population
          /\ grouped_cso_settlements[j].population > 0

====
